---- MODULE Spec2Model ----
(***************************************************************************)
(* A model of the CKAN fetch / column-mapping scripts of the repository:   *)
(*   src/oae_Thai/oae_api.py, src/Oae_Thai/combinecsv.py,                  *)
(*   src/fisheries_thai/fisheries_api.py.                                  *)
(*                                                                         *)
(* The module holds four state machines over one set of variables, each    *)
(* with its own specification:                                             *)
(*   SpecHttp   one call of http_get (the retry loop);                     *)
(*   SpecFetch  one call of datastore_fetch_all (offset pagination);       *)
(*   SpecRun    one run of dump_group_slim_clean / dump_group /            *)
(*              dump_group_stat_only over a catalog;                       *)
(*   SpecMap    build_col_map, detect_col and slim_dataframe on a table.   *)
(* A specification leaves the variables of the other machines idle.        *)
(***************************************************************************)
EXTENDS Integers, Sequences, FiniteSets, TLC

VARIABLES
  \* ---- http_get ----
  hg_retries,    \* the `retries` argument
  hg_backoff,    \* the `backoff` argument, a fraction <<num, den>>
  hg_i,          \* the loop variable i of `for i in range(retries)`
  hg_pc,         \* "loop" | "returned" | "raised"
  hg_requests,   \* outcome of every requests.get issued so far, in order
  hg_result,     \* what the call returned or raised
  hg_sleeps,     \* every time.sleep argument so far, a fraction <<num, den>>
  \* ---- datastore_fetch_all / iter_all_datasets_in_group ----
  f_loop,        \* which of the two paging loops runs
  f_total,       \* number of records the server holds (its `total`); for the
                 \* server "any", the largest total it reports
  f_page,        \* the page_size argument
  f_mode,        \* the server's responses: "total" | "nototal" | "any"
  f_offset,      \* local variable offset
  f_all,         \* local variable all_records
  f_pc,          \* "loop" | "returned" | "raised"
  f_reqs,        \* the offset parameter of every request sent, in order
  f_got,         \* the number of records of every page received, in order
  f_seen,        \* the total of every response received: {t}, or {} for none
  f_error,       \* the exception that left the function, "none" if none
  \* ---- dump_group_slim_clean / dump_group / dump_group_stat_only ----
  r_script,      \* "slim" (oae_api) | "dump" (combinecsv) | "stat" (fisheries_api)
  r_fallback,    \* the include_non_datastore argument (slim)
  r_count,       \* number of datasets of the group on the server (its `count`)
  r_start,       \* `start` of iter_all_datasets_in_group
  r_results,     \* `results`, the listing page the generator is yielding from
  r_k,           \* position in r_results of the next dataset to yield
  r_pc,          \* "list" | "dataset" | "resource" | "write" | "done" | "aborted"
  r_nres,        \* number of resources of the dataset being processed
  r_j,           \* position of the next resource of that dataset
  r_n,           \* number of resources the loops have reached so far
  r_listed,      \* the resources the loops reached that pass the name filters
  r_catalog,     \* catalog_rows, as resource numbers
  r_combined,    \* the resources whose rows were appended to the combined list
  r_firstfail,   \* first resource with a failed fields/records/file request, 0 if none
  r_download,    \* the latest request of a resource's download URL, None if none
  r_abort,       \* what ended the run with an uncaught exception, "none" if nothing
  r_outdir,      \* the files in the output directory
  r_saved,       \* the resources in the catalog and in the combined table saved
  r_yielded,     \* number of datasets the generator has yielded
  r_announced,   \* number of resources of the datasets the loop has entered
  \* ---- build_col_map / detect_col / slim_dataframe ----
  m_cols,        \* the column names of the source table
  m_nrows,       \* the number of rows of the table slim_dataframe was given
  m_pc,          \* "start" | "built" | "rebuilt" | "permuted" | "detected" | "slimmed"
  m_map1,        \* what build_col_map returned
  m_map2,        \* what it returned in a second execution
  m_perm,        \* the columns in another order
  m_mapp,        \* what build_col_map returned for m_perm
  m_kw,          \* the keywords detect_col was called with
  m_prefer,      \* its prefer_contains argument
  m_det,         \* what detect_col returned
  m_detp,        \* what it returned for m_perm
  m_slim,        \* what slim_dataframe returned
  m_cmap,        \* the mapping slim_dataframe got from build_col_map
  \* ---- clean_year ----
  y_tok,         \* the year written in the input
  y_in,          \* the input text (what str(y) gives), or Missing
  y_pc,          \* "start" | "cleaned" | "missing"
  y_variant,     \* "oae" | "fisheries": whose clean_year was called
  y_out,         \* what clean_year returned: {} for None, {v} for the int v
  y_again,       \* what clean_year returns for the int it returned
  \* ---- clean_slim_df and the combined table ----
  c_rows,        \* the slim table of a resource
  c_pc,          \* "start" | "cleaned" | "combined"
  c_out,         \* what clean_slim_df returned for it
  c_other,       \* the slim table of a second resource
  c_all,         \* the combined table of the two (<<>> when none is written)
  \* ---- the write step of a run and prune_outdir ----
  w_script,      \* "slim" | "dump" | "energy": which script writes
  w_combined,    \* whether the list of combined rows is not empty
  w_before,      \* the entries of the output directory before the write step
  w_outdir,      \* the entries of the output directory
  w_todo,        \* the files still to write, in order
  w_pc,          \* "write" | "parquet" | "prune" | "done" | "aborted"
  w_written,     \* the files this run has written
  w_lockhit,     \* the file whose write found the destination locked, or NoFile
  w_parquet_ok,  \* parquet_ok
  w_pruned,      \* whether prune_outdir was called
  w_pending,     \* the names of os.listdir(outdir) the loop has not visited
  w_failed,      \* the names whose os.remove failed and was reported
  \* ---- main of cleandata.py ----
  e_files,       \* the base names of the workbooks gather_files returned, in order
  e_only,        \* the --only-year argument: {} or {year}
  e_i,           \* the position of the for loop in e_files
  e_sheets,      \* what extract_one_year returned for every file visited
  e_parsed,      \* local variable parsed
  e_pc,          \* "loop" | "done" | "exit"
  e_csv,         \* the rows written to energy_balance_clean_<ts>.csv
  e_gaps         \* the rows written to energy_balance_gaps_<ts>.csv after its header

hgVars == <<hg_retries, hg_backoff, hg_i, hg_pc, hg_requests, hg_result, hg_sleeps>>
fVars  == <<f_loop, f_total, f_page, f_mode, f_offset, f_all, f_pc, f_reqs, f_got, f_seen, f_error>>
rVars  == <<r_script, r_fallback, r_count, r_start, r_results, r_k, r_pc, r_nres,
            r_j, r_n, r_listed, r_catalog, r_combined, r_firstfail, r_download,
            r_abort, r_outdir, r_saved, r_yielded, r_announced>>
mVars  == <<m_cols, m_nrows, m_pc, m_map1, m_map2, m_perm, m_mapp, m_kw, m_prefer,
            m_det, m_detp, m_slim, m_cmap>>
yVars  == <<y_tok, y_in, y_pc, y_variant, y_out, y_again>>
cVars  == <<c_rows, c_pc, c_out, c_other, c_all>>
wVars  == <<w_script, w_combined, w_before, w_outdir, w_todo, w_pc, w_written,
            w_lockhit, w_parquet_ok, w_pruned, w_pending, w_failed>>
eVars  == <<e_files, e_only, e_i, e_sheets, e_parsed, e_pc, e_csv, e_gaps>>
vars   == <<hgVars, fVars, rVars, mVars, yVars, cVars, wVars, eVars>>

\* A value no program value equals: Python's None.
None == [kind |-> "None"]

\* ---------------------------------------------------------------- bounds
MaxRetries == 3
MaxTotal   == 5
MaxPage    == 3
MaxDatasets  == 2   \* datasets of the group
MaxResources == 3   \* resources of all the datasets together
ListRows     == 1   \* rows of a package_search page (500 in the code)

\* ------------------------------------------------------------ arithmetic
RECURSIVE Pow(_, _)
Pow(b, e) == IF e = 0 THEN 1 ELSE b * Pow(b, e - 1)

RECURSIVE SumSeq(_)
SumSeq(s) == IF s = <<>> THEN 0 ELSE Head(s) + SumSeq(Tail(s))

Min(a, b) == IF a <= b THEN a ELSE b

\* -------------------------------------------------------------------------
\*  http_get(url, params, timeout, retries, backoff)
\* -------------------------------------------------------------------------

\* What one requests.get + raise_for_status can raise (caught by
\* `except Exception`).
HttpFailures == {"ConnectionError", "Timeout", "HTTPError"}

\* The default values of `backoff`: 1.6 (oae_api) and 1.5 (combinecsv,
\* fisheries_api), as fractions.
Backoffs == {<<16, 10>>, <<15, 10>>}

\* backoff ** e as a fraction.
BackoffLinear(b, e) == <<b[1] * e, b[2]>>
BackoffPow(b, e) == <<Pow(b[1], e), Pow(b[2], e)>>

HttpIdle ==
  /\ hg_retries = 0 /\ hg_backoff = <<1, 1>> /\ hg_i = 0 /\ hg_pc = "idle"
  /\ hg_requests = <<>> /\ hg_result = None /\ hg_sleeps = <<>>

HttpInit ==
  /\ hg_retries \in 0..MaxRetries
  /\ hg_backoff \in Backoffs
  /\ hg_i = 0
  /\ hg_pc = "loop"
  /\ hg_requests = <<>>
  /\ hg_result = None
  /\ hg_sleeps = <<>>

\* `if i == retries - 1: raise`
IsLastAttemptOffByOne(i, retries) == i = retries
IsLastAttempt(i, retries) == i = retries - 1

\* One iteration whose GET succeeds: `return r`.
HttpAttemptOkKeepsLooping ==
  /\ hg_pc = "loop" /\ hg_i < hg_retries
  /\ hg_requests' = Append(hg_requests, "ok")
  /\ hg_result' = [kind |-> "response", attempt |-> hg_i + 1]
  /\ hg_i' = hg_i + 1
  /\ UNCHANGED <<hg_pc, hg_retries, hg_backoff, hg_sleeps>>

HttpAttemptOk ==
  /\ hg_pc = "loop" /\ hg_i < hg_retries
  /\ hg_requests' = Append(hg_requests, "ok")
  /\ hg_pc' = "returned"
  /\ hg_result' = [kind |-> "response", attempt |-> hg_i + 1]
  /\ UNCHANGED <<hg_retries, hg_backoff, hg_i, hg_sleeps>>

\* One iteration whose GET (or raise_for_status) raises e: re-raise on the
\* last iteration, otherwise sleep backoff ** (i + 1) and go on.
HttpAttemptFail(e) ==
  /\ hg_pc = "loop" /\ hg_i < hg_retries
  /\ hg_requests' = Append(hg_requests, e)
  /\ IF IsLastAttempt(hg_i, hg_retries)
       THEN /\ hg_pc' = "raised"
            /\ hg_result' = [kind |-> "error", error |-> e, attempt |-> hg_i + 1]
            /\ UNCHANGED <<hg_i, hg_sleeps>>
       ELSE /\ hg_sleeps' = Append(hg_sleeps, BackoffPow(hg_backoff, hg_i + 1))
            /\ hg_i' = hg_i + 1
            /\ UNCHANGED <<hg_pc, hg_result>>
  /\ UNCHANGED <<hg_retries, hg_backoff>>

\* range(retries) is exhausted without a return or a raise: the function
\* falls off its end and returns None.
HttpFallThrough ==
  /\ hg_pc = "loop" /\ hg_i >= hg_retries
  /\ hg_pc' = "returned"
  /\ hg_result' = None
  /\ UNCHANGED <<hg_retries, hg_backoff, hg_i, hg_requests, hg_sleeps>>

\* -------------------------------------------------------------------------
\*  datastore_fetch_all(resource_id, page_size)
\* -------------------------------------------------------------------------

\* The records the server holds, in server order.
ServerRecords(total) == [k \in 1..total |-> k]

\* The `records` of the response to limit = page_size, offset = offset.
ServerPage(total, offset, page_size) ==
  IF offset >= total THEN <<>>
  ELSE SubSeq(ServerRecords(total), offset + 1, Min(offset + page_size, total))

\* The two loops that page through a CKAN listing with offset/limit:
\* datastore_fetch_all (records, total, offset) and
\* iter_all_datasets_in_group (results, count, start).
PagingLoops == {"datastore_fetch_all", "iter_all_datasets_in_group"}

FetchIdle ==
  /\ f_loop = "idle" /\ f_total = 0 /\ f_page = 0 /\ f_mode = "idle" /\ f_offset = 0
  /\ f_all = <<>> /\ f_pc = "idle" /\ f_reqs = <<>> /\ f_got = <<>>
  /\ f_seen = <<>> /\ f_error = "none"

\* Servers: "total" holds f_total records, answers a request with the page
\* asked for and reports its total; "nototal" does the same without
\* reporting a total; "any" answers every request with any page and any
\* total up to f_total, or none.
FetchInit ==
  /\ f_loop \in PagingLoops
  /\ f_total \in 0..MaxTotal
  /\ f_page \in 1..MaxPage
  /\ f_mode \in {"total", "nototal", "any"}
  /\ f_offset = 0
  /\ f_all = <<>>
  /\ f_pc = "loop"
  /\ f_reqs = <<>>
  /\ f_got = <<>>
  /\ f_seen = <<>>
  /\ f_error = "none"

\* `offset += len(recs)`
NextOffsetAssigned(offset, recs) == Len(recs)
NextOffset(offset, recs) == offset + Len(recs)

\* The default of a missing total: `res.get("total", len(all_records))`,
\* `result.get("count", 0)`.
MissingTotalNeverReached(all) == Len(all) + 1
MissingTotal(all) == IF f_loop = "datastore_fetch_all" THEN Len(all) ELSE 0

\* `res.get("total", len(all_records))`
ReportedTotal(all) == IF f_mode = "total" THEN f_total ELSE MissingTotal(all)

\* `if len(recs) == 0 or offset >= total: break`; in the listing loop
\* `if not results: break` ... `if start >= result.get("count", 0): break`.
LoopEndsOnTotalOnly(recs, offset, total) == offset >= total
LoopEnds(recs, offset, total) == Len(recs) = 0 \/ offset >= total

\* One iteration of `while True`, the request answered with success.
FetchPage ==
  /\ f_pc = "loop" /\ f_mode # "any"
  /\ LET recs   == ServerPage(f_total, f_offset, f_page)
         all    == f_all \o recs
         total  == ReportedTotal(all)
         offset == NextOffset(f_offset, recs)
     IN /\ f_reqs' = Append(f_reqs, f_offset)
        /\ f_got' = Append(f_got, Len(recs))
        /\ f_seen' = Append(f_seen, IF f_mode = "total" THEN {f_total} ELSE {})
        /\ f_all' = all
        /\ f_offset' = offset
        /\ f_pc' = IF LoopEnds(recs, offset, total) THEN "returned" ELSE "loop"
  /\ UNCHANGED <<f_loop, f_total, f_page, f_mode, f_error>>

\* One iteration against a server that answers as it likes: a page of n
\* records, whatever the limit, and the total `reported` ({} when the
\* response carries none).
FetchPageAny(n, reported) ==
  /\ f_pc = "loop" /\ f_mode = "any"
  /\ LET recs   == [k \in 1..n |-> Len(f_all) + k]
         all    == f_all \o recs
         total  == IF reported = {} THEN MissingTotal(all)
                   ELSE CHOOSE t \in reported : TRUE
         offset == NextOffset(f_offset, recs)
     IN /\ f_reqs' = Append(f_reqs, f_offset)
        /\ f_got' = Append(f_got, Len(recs))
        /\ f_seen' = Append(f_seen, reported)
        /\ f_all' = all
        /\ f_offset' = offset
        /\ f_pc' = IF LoopEnds(recs, offset, total) THEN "returned" ELSE "loop"
  /\ UNCHANGED <<f_loop, f_total, f_page, f_mode, f_error>>

\* http_get raises after its retries: the exception leaves the function.
FetchHttpError ==
  /\ f_pc = "loop"
  /\ f_reqs' = Append(f_reqs, f_offset)
  /\ f_pc' = "raised"
  /\ f_error' = "HttpError"
  /\ UNCHANGED <<f_loop, f_total, f_page, f_mode, f_offset, f_all, f_got, f_seen>>

\* `if not data.get("success"): raise RuntimeError(data)`
FetchNotSuccess ==
  /\ f_pc = "loop"
  /\ f_reqs' = Append(f_reqs, f_offset)
  /\ f_pc' = "raised"
  /\ f_error' = "RuntimeError"
  /\ UNCHANGED <<f_loop, f_total, f_page, f_mode, f_offset, f_all, f_got, f_seen>>

\* -------------------------------------------------------------------------
\*  dump_group_slim_clean / dump_group / dump_group_stat_only
\* -------------------------------------------------------------------------

Scripts == {"slim", "dump", "stat"}

RunIdle ==
  /\ r_script = "idle" /\ r_fallback = FALSE /\ r_count = 0 /\ r_start = 0
  /\ r_results = <<>> /\ r_k = 0 /\ r_pc = "idle" /\ r_nres = 0 /\ r_j = 0
  /\ r_n = 0 /\ r_listed = <<>> /\ r_catalog = <<>> /\ r_combined = <<>>
  /\ r_firstfail = 0 /\ r_download = None /\ r_abort = "none" /\ r_outdir = {}
  /\ r_saved = None /\ r_yielded = 0 /\ r_announced = 0

\* os.makedirs; catalog_rows = []; combined = []; the generator is created
\* and has not run yet.
RunInit ==
  /\ r_script \in Scripts
  /\ r_fallback \in BOOLEAN
  /\ r_script # "slim" => r_fallback = TRUE
  /\ r_count \in 0..MaxDatasets
  /\ r_start = 0
  /\ r_results = <<>> /\ r_k = 0
  /\ r_pc = "list"
  /\ r_nres = 0 /\ r_j = 0 /\ r_n = 0
  /\ r_listed = <<>> /\ r_catalog = <<>> /\ r_combined = <<>>
  /\ r_firstfail = 0 /\ r_download = None /\ r_abort = "none" /\ r_outdir = {}
  /\ r_saved = None /\ r_yielded = 0 /\ r_announced = 0

\* The `results` of package_search(rows, start): the datasets start+1 ..
\* min(start+rows, count), by their number on the server.
ListingPage(count, start, rows) ==
  [i \in 1..(Min(start + rows, count) - Min(start, count)) |-> start + i]

\* iter_all_datasets_in_group: the generator requests a page; an empty page
\* ends the iteration, otherwise its datasets are yielded one by one.
RunListPage ==
  /\ r_pc = "list"
  /\ LET results == ListingPage(r_count, r_start, ListRows)
     IN /\ r_results' = results
        /\ r_k' = 1
        /\ r_pc' = IF results = <<>> THEN "write" ELSE "dataset"
  /\ UNCHANGED <<r_script, r_fallback, r_count, r_start, r_nres, r_j, r_n, r_listed,
                 r_catalog, r_combined, r_firstfail, r_download, r_abort, r_outdir,
                 r_saved, r_yielded, r_announced>>

\* package_search_by_group raises (http_get after its retries, or success
\* false): nothing in the generator, the for loop, dump_group* or main
\* catches it.
RunListFail ==
  /\ r_pc = "list"
  /\ r_pc' = "aborted"
  /\ r_abort' = "listing"
  /\ UNCHANGED <<r_script, r_fallback, r_count, r_start, r_results, r_k, r_nres, r_j,
                 r_n, r_listed, r_catalog, r_combined, r_firstfail, r_download,
                 r_outdir, r_saved, r_yielded, r_announced>>

\* The page is exhausted: `start += len(results)`, stop at start >= count.
RunEndOfPage ==
  /\ r_pc = "dataset" /\ r_k > Len(r_results)
  /\ r_start' = r_start + Len(r_results)
  /\ r_pc' = IF r_start' >= r_count THEN "write" ELSE "list"
  /\ UNCHANGED <<r_script, r_fallback, r_count, r_results, r_k, r_nres, r_j, r_n,
                 r_listed, r_catalog, r_combined, r_firstfail, r_download, r_abort,
                 r_outdir, r_saved, r_yielded, r_announced>>

\* The for loop takes the next dataset. titled: its title holds the word the
\* stat script filters on; nres: its number of resources.
RunDataset(titled, nres) ==
  /\ r_pc = "dataset" /\ r_k <= Len(r_results)
  /\ r_yielded' = r_yielded + 1
  /\ IF nres = 0 \/ (r_script = "stat" /\ ~titled)
       THEN /\ r_k' = r_k + 1
            /\ UNCHANGED <<r_pc, r_nres, r_j, r_announced>>
       ELSE /\ r_pc' = "resource"
            /\ r_nres' = nres
            /\ r_j' = 1
            /\ r_announced' = r_announced + nres
            /\ UNCHANGED r_k
  /\ UNCHANGED <<r_script, r_fallback, r_count, r_start, r_results, r_n, r_listed,
                 r_catalog, r_combined, r_firstfail, r_download, r_abort, r_outdir,
                 r_saved>>

\* What the server and the resource descriptor give one resource step.
\*   named   the name passes the stat script's filter
\*   active  datastore_active
\*   rid     r.get("id") is not None
\*   url     r.get("url") is not empty
\*   fmt     format / URL suffix: read as a table (CSV, XLSX, XLS) or other
\*   fields  outcome of datastore_fields
\*   fetch   outcome of datastore_fetch_all: rows that survive cleaning, rows
\*           that do not, no rows, or an exception
\*   file    outcome of http_get(url) + read_csv / read_excel, likewise
\* An outcome no script reads is held at one value; a datastore request
\* without a resource id is answered with an HTTP error.
ResourceInputs ==
  { in \in [ named : BOOLEAN, active : BOOLEAN, rid : BOOLEAN, url : BOOLEAN,
             fmt : {"table", "other"}, fields : {"ok", "fail"},
             fetch : {"rows", "noclean", "empty", "fail"},
             file : {"rows", "noclean", "empty", "fail"} ] :
      /\ (~in.active \/ ~in.rid) => (in.fields = "fail" /\ in.fetch = "fail")
      /\ ~in.url => (in.fmt = "other" /\ in.file = "fail")
      /\ in.fmt = "other" => in.file \in {"rows", "fail"} }

\* Body of `for r in resources` of dump_group_slim_clean.
SlimResource(in, fallback) ==
  LET calls   == in.active /\ in.rid
      slim1   == IF calls /\ in.fetch # "fail" THEN in.fetch ELSE "none"
      filed   == slim1 = "none" /\ fallback /\ in.url
      slim2   == IF ~filed THEN slim1
                 ELSE IF in.file = "fail" \/ in.fmt = "other" THEN "none"
                 ELSE in.file
  IN [ cataloged |-> TRUE,
       combined  |-> slim2 = "rows",
       perfile   |-> slim2 = "rows",
       download  |-> filed,
       failed    |-> \/ calls /\ in.fields = "fail"
                     \/ calls /\ in.fetch = "fail"
                     \/ filed /\ in.file = "fail" ]

\* Body of `for r in resources` of dump_group.
DumpResource(in) ==
  LET pulled == in.active /\ in.rid /\ in.fetch # "fail"
  IN [ cataloged |-> TRUE,
       combined  |-> pulled,
       perfile   |-> pulled,
       download  |-> FALSE,
       failed    |-> \/ in.active /\ in.fields = "fail"
                     \/ in.active /\ in.rid /\ in.fetch = "fail" ]

\* Body of `for r in ds.get("resources", [])` of dump_group_stat_only.
StatResource(in) ==
  LET filed == ~in.active /\ in.url
      df    == IF in.active THEN (IF in.fetch = "fail" THEN "none" ELSE in.fetch)
               ELSE IF filed /\ in.file # "fail" /\ in.fmt # "other" THEN in.file
               ELSE "none"
  IN [ cataloged |-> in.named,
       combined  |-> in.named /\ df \in {"rows", "noclean"},
       perfile   |-> FALSE,
       download  |-> in.named /\ filed,
       failed    |-> in.named /\ \/ in.active /\ in.fetch = "fail"
                                 \/ filed /\ (in.file = "fail" \/ in.fmt = "other") ]

ResourceStep(script, in, fallback) ==
  CASE script = "slim" -> SlimResource(in, fallback)
    [] script = "dump" -> DumpResource(in)
    [] script = "stat" -> StatResource(in)

\* Whether a failed request of the resource step leaves the step as an
\* exception: every such call is inside try / except Exception.
EscapesTryUnguarded(failed) == failed
EscapesTry(failed) == FALSE

\* One iteration of the loop over the resources of the current dataset.
RunResource(in) ==
  /\ r_pc = "resource"
  /\ LET n    == r_n + 1
         step == ResourceStep(r_script, in, r_fallback)
         last == r_j = r_nres
     IN /\ r_n' = n
        /\ r_listed' = IF step.cataloged THEN Append(r_listed, n) ELSE r_listed
        /\ r_catalog' = IF step.cataloged THEN Append(r_catalog, n) ELSE r_catalog
        /\ r_firstfail' = IF step.failed /\ r_firstfail = 0 THEN n ELSE r_firstfail
        /\ r_download' = IF step.download THEN [resource |-> n, active |-> in.active]
                         ELSE r_download
        /\ IF EscapesTry(step.failed)
             THEN /\ r_pc' = "aborted"
                  /\ r_abort' = "resource"
                  /\ UNCHANGED <<r_combined, r_outdir, r_j, r_k>>
             ELSE /\ r_combined' = IF step.combined THEN Append(r_combined, n)
                                   ELSE r_combined
                  /\ r_outdir' = IF step.perfile THEN r_outdir \cup {<<"resource", n>>}
                                 ELSE r_outdir
                  /\ r_pc' = IF last THEN "dataset" ELSE "resource"
                  /\ r_j' = IF last THEN r_j ELSE r_j + 1
                  /\ r_k' = IF last THEN r_k + 1 ELSE r_k
                  /\ UNCHANGED r_abort
  /\ UNCHANGED <<r_script, r_fallback, r_count, r_start, r_results, r_nres,
                 r_saved, r_yielded, r_announced>>

\* The files prune_outdir keeps.
PruneKeep(parquet_saved) ==
  {<<"ALL", "csv">>} \cup (IF parquet_saved THEN {<<"ALL", "parquet">>} ELSE {})

\* After the loops: the catalog is saved, then the combined table when a
\* resource gave rows; the slim script then prunes the output directory.
RunWrite(parquet_ok) ==
  /\ r_pc = "write"
  /\ LET catalog  == IF r_script = "stat" THEN {<<"catalog", "csv">>}
                     ELSE {<<"catalog", "csv">>, <<"catalog", "json">>}
         combined == {<<"ALL", "csv">>}
                       \cup (IF parquet_ok THEN {<<"ALL", "parquet">>} ELSE {})
         saved    == r_outdir \cup catalog \cup combined
     IN r_outdir' = IF r_combined = <<>> THEN r_outdir \cup catalog
                    ELSE IF r_script = "slim" THEN saved \cap PruneKeep(parquet_ok)
                    ELSE saved
  /\ r_saved' = [catalog  |-> r_catalog,
                 combined |-> IF r_combined = <<>> THEN None ELSE r_combined]
  /\ r_pc' = "done"
  /\ UNCHANGED <<r_script, r_fallback, r_count, r_start, r_results, r_k, r_nres, r_j,
                 r_n, r_listed, r_catalog, r_combined, r_firstfail, r_download,
                 r_abort, r_yielded, r_announced>>

\* -------------------------------------------------------------------------
\*  Column mapping: norm, build_col_map, detect_col, slim_dataframe
\*
\*  A string is the sequence of its characters: an ASCII character is
\*  itself, any other character is the four hex digits of its code point.
\* -------------------------------------------------------------------------

UpperCase == <<"A", "B", "C", "D", "E", "F", "G", "H", "I", "J", "K", "L", "M",
               "N", "O", "P", "Q", "R", "S", "T", "U", "V", "W", "X", "Y", "Z">>
LowerCase == <<"a", "b", "c", "d", "e", "f", "g", "h", "i", "j", "k", "l", "m",
               "n", "o", "p", "q", "r", "s", "t", "u", "v", "w", "x", "y", "z">>

LowerOf ==
  [ch \in {UpperCase[i] : i \in DOMAIN UpperCase} |->
     LowerCase[CHOOSE i \in DOMAIN UpperCase : UpperCase[i] = ch]]

\* str.lower(), character by character.
LowerChar(ch) == IF ch \in DOMAIN LowerOf THEN LowerOf[ch] ELSE ch

Lower(s) == [i \in DOMAIN s |-> LowerChar(s[i])]

\* The characters str.strip() removes.
WhiteSpace == {" ", "\t", "\n", "\r"}

RECURSIVE LStrip(_)
LStrip(s) == IF s # <<>> /\ Head(s) \in WhiteSpace THEN LStrip(Tail(s)) ELSE s

RECURSIVE RStrip(_)
RStrip(s) ==
  IF s # <<>> /\ s[Len(s)] \in WhiteSpace THEN RStrip(SubSeq(s, 1, Len(s) - 1)) ELSE s

Strip(s) == RStrip(LStrip(s))

\* unicodedata.normalize("NFC", s): a base character followed by a
\* combining mark becomes the precomposed character (here e + U+0301 and
\* E + U+0301; the aliases and the Thai letters have no composition).
NFCPairs == { <<"e", "0301", "00E9">>, <<"E", "0301", "00C9">> }

RECURSIVE NFC(_)
NFC(s) ==
  IF Len(s) < 2 THEN s
  ELSE IF \E p \in NFCPairs : p[1] = s[1] /\ p[2] = s[2]
    THEN LET p == CHOOSE q \in NFCPairs : q[1] = s[1] /\ q[2] = s[2]
         IN <<p[3]>> \o NFC(SubSeq(s, 3, Len(s)))
  ELSE <<s[1]>> \o NFC(Tail(s))

\* norm(s) = unicodedata.normalize("NFC", s or "").strip().lower()
norm(s) == Lower(Strip(NFC(s)))

\* s.startswith(p)
StartsWith(s, p) == Len(p) <= Len(s) /\ SubSeq(s, 1, Len(p)) = p

\* p in s
Contains(s, p) ==
  \E i \in 0..(Len(s) - Len(p)) : SubSeq(s, i + 1, i + Len(p)) = p

TARGET_ORDER ==
  <<"id", "year", "province", "commod", "subcommod", "atrriburte", "value", "unit">>

Targets == {TARGET_ORDER[i] : i \in DOMAIN TARGET_ORDER}

\* The alias sets, in the order the source writes them (a set has no order
\* at run time).
ALIASES ==
  [ id        |-> { <<"i", "d">>,
                    <<"_", "i", "d">>,
                    <<"r", "e", "c", "o", "r", "d", "i", "d">>,
                    <<"r", "e", "c", "o", "r", "d", "_", "i", "d">>,
                    <<"0E25", "0E33", "0E14", "0E31", "0E1A">>,
                    <<"0E23", "0E2B", "0E31", "0E2A">> },
    year      |-> { <<"y", "e", "a", "r">>,
                    <<"0E1B", "0E35">>,
                    <<"0E1E", ".", "0E28", ".">>,
                    <<"0E1E", "0E28">>,
                    <<"y", "e", "a", "r", "_", "b", "e">>,
                    <<"b", "e", "_", "y", "e", "a", "r">>,
                    <<"0E1B", "0E35", "(", "0E1E", ".", "0E28", ".", ")">>,
                    <<"0E1B", "0E35", "0E1E", ".", "0E28", ".">>,
                    <<"0E1B", "0E35", "0E1E", "0E28">> },
    province  |-> { <<"p", "r", "o", "v", "i", "n", "c", "e">>,
                    <<"0E08", "0E31", "0E07", "0E2B", "0E27", "0E31", "0E14">>,
                    <<"p", "r", "o", "v">>,
                    <<"p", "r", "o", "v", "_", "n", "a", "m", "e">>,
                    <<"p", "r", "o", "v", "i", "n", "c", "e", "_", "n", "a", "m", "e">> },
    commod    |-> { <<"c", "o", "m", "m", "o", "d">>,
                    <<"c", "o", "m", "m", "o", "d", "i", "t", "y">>,
                    <<"0E2A", "0E34", "0E19", "0E04", "0E49", "0E32">>,
                    <<"0E0A", "0E19", "0E34", "0E14", "0E2A", "0E34", "0E19", "0E04", "0E49", "0E32">>,
                    <<"0E1E", "0E37", "0E0A">>,
                    <<"0E2A", "0E34", "0E19", "0E04", "0E49", "0E32", "0E40", "0E01", "0E29", "0E15", "0E23">> },
    subcommod |-> { <<"s", "u", "b", "c", "o", "m", "m", "o", "d">>,
                    <<"s", "u", "b", "_", "c", "o", "m", "m", "o", "d">>,
                    <<"s", "u", "b", "c", "o", "m", "m", "o", "d", "i", "t", "y">>,
                    <<"0E0A", "0E19", "0E34", "0E14", "0E22", "0E48", "0E2D", "0E22">>,
                    <<"0E1E", "0E31", "0E19", "0E18", "0E38", "0E4C">>,
                    <<"0E1B", "0E23", "0E30", "0E40", "0E20", "0E17", "0E22", "0E48", "0E2D", "0E22">> },
    atrriburte |-> { <<"a", "t", "r", "r", "i", "b", "u", "r", "t", "e">>,
                    <<"a", "t", "t", "r", "i", "b", "u", "t", "e">>,
                    <<"a", "t", "t", "r">>,
                    <<"0E15", "0E31", "0E27", "0E41", "0E1B", "0E23">>,
                    <<"0E23", "0E32", "0E22", "0E01", "0E32", "0E23">>,
                    <<"0E15", "0E31", "0E27", "0E0A", "0E35", "0E49", "0E27", "0E31", "0E14">> },
    value     |-> { <<"v", "a", "l", "u", "e">>,
                    <<"v", "a", "l">>,
                    <<"0E04", "0E48", "0E32", "0E17", "0E35", "0E48", "0E27", "0E31", "0E14", "0E44", "0E14", "0E49">>,
                    <<"0E1B", "0E23", "0E34", "0E21", "0E32", "0E13">>,
                    <<"0E1C", "0E25", "0E1C", "0E25", "0E34", "0E15">>,
                    <<"0E1B", "0E23", "0E34", "0E21", "0E32", "0E13", "0E1C", "0E25", "0E1C", "0E25", "0E34", "0E15">>,
                    <<"0E21", "0E39", "0E25", "0E04", "0E48", "0E32">> },
    unit      |-> { <<"u", "n", "i", "t">>,
                    <<"u", "n", "i", "t", "s">>,
                    <<"0E2B", "0E19", "0E48", "0E27", "0E22">>,
                    <<"0E2B", "0E19", "0E48", "0E27", "0E22", "0E19", "0E31", "0E1A">> } ]

NormAliases == [t \in Targets |-> {norm(c) : c \in ALIASES[t]}]

\* No column: the key is missing from the mapping / detect_col returns None.
NoCol == <<"None">>

\* {norm(c): c for c in columns}: a dict keeps the position of the first
\* insertion of a key and the value of the last. A sequence of <<key, value>>.
RECURSIVE DictOfColumns(_, _)
DictOfColumns(columns, acc) ==
  IF columns = <<>> THEN acc
  ELSE LET c  == Head(columns)
           nc == norm(c)
       IN IF \E i \in DOMAIN acc : acc[i][1] = nc
            THEN DictOfColumns(Tail(columns),
                   [acc EXCEPT ![CHOOSE i \in DOMAIN acc : acc[i][1] = nc] = <<nc, c>>])
            ELSE DictOfColumns(Tail(columns), Append(acc, <<nc, c>>))

NormCols(columns) == DictOfColumns(columns, <<>>)

DictKeys(d) == {d[i][1] : i \in DOMAIN d}
DictGet(d, k) == d[CHOOSE i \in DOMAIN d : d[i][1] = k][2]

\* Stage 1 of build_col_map: `for cand in cands: if norm(cand) in norm_cols`.
\* cands is a set of str: its iteration order depends on the hash seed of
\* the process, so the first alias found can be any alias that is a key.
ExactHits(target, norm_cols) ==
  {DictGet(norm_cols, nc) : nc \in NormAliases[target] \cap DictKeys(norm_cols)}

\* Stage 2: the first entry of norm_cols whose key starts with an alias.
PrefixMatches(target, nc) == \E a \in NormAliases[target] : StartsWith(nc, a)

\* Stage 3: the first entry whose key contains an alias of 3 characters or
\* more.
MinAliasLenNoGuard(a) == TRUE
MinAliasLen(a) == Len(a) >= 3

ContainsMatches(target, nc) ==
  \E a \in NormAliases[target] : Contains(nc, a) /\ MinAliasLen(a)

FirstPrefixHit(target, norm_cols) ==
  LET I == {i \in DOMAIN norm_cols : PrefixMatches(target, norm_cols[i][1])}
  IN IF I = {} THEN NoCol
     ELSE norm_cols[CHOOSE i \in I : \A j \in I : i <= j][2]

FirstContainsHit(target, norm_cols) ==
  LET I == {i \in DOMAIN norm_cols : ContainsMatches(target, norm_cols[i][1])}
  IN IF I = {} THEN NoCol
     ELSE norm_cols[CHOOSE i \in I : \A j \in I : i <= j][2]

\* The values `hit` can have at the end of one iteration of
\* `for target, cands in ALIASES.items()`.
ColHitsPrefixFirst(target, norm_cols) ==
  IF FirstPrefixHit(target, norm_cols) # NoCol
    THEN {FirstPrefixHit(target, norm_cols)}
  ELSE IF ExactHits(target, norm_cols) # {} THEN ExactHits(target, norm_cols)
  ELSE {FirstContainsHit(target, norm_cols)}

ColHits(target, norm_cols) ==
  IF ExactHits(target, norm_cols) # {} THEN ExactHits(target, norm_cols)
  ELSE IF FirstPrefixHit(target, norm_cols) # NoCol
    THEN {FirstPrefixHit(target, norm_cols)}
  ELSE {FirstContainsHit(target, norm_cols)}

\* build_col_map(columns): the mappings a call can return, one for every
\* choice of the hits (a target without a hit maps to NoCol).
RECURSIVE ColMaps(_, _)
ColMaps(targets, norm_cols) ==
  IF targets = <<>> THEN {[t \in {} |-> NoCol]}
  ELSE LET t == Head(targets)
       IN {[u \in DOMAIN m \cup {t} |-> IF u = t THEN h ELSE m[u]] :
             m \in ColMaps(Tail(targets), norm_cols), h \in ColHits(t, norm_cols)}

build_col_map(columns) == ColMaps(TARGET_ORDER, NormCols(columns))

\* The keyword lists detect_col is called with in summarize_from_raw.
DetectKeywords ==
  { << <<"0E2B", "0E19", "0E48", "0E27", "0E22">>,
       <<"0E2B", "0E19", "0E48", "0E27", "0E22", ".", "1">>,
       <<"u", "n", "i", "t">>,
       <<"u", "n", "i", "t", "s">> >>,
    << <<"0E21", "0E39", "0E25", "0E04", "0E48", "0E32", " ", "(", "0E1A", "0E32", "0E17", ")">>,
       <<"0E21", "0E39", "0E25", "0E04", "0E48", "0E32", "0E1A", "0E32", "0E17">>,
       <<"v", "a", "l", "u", "e">>,
       <<"v", "a", "l", "u", "e", "_", "t", "h", "b">> >>,
    << <<"0E1B", "0E35">>,
       <<"0E1E", ".", "0E28", ".">>,
       <<"0E1B", "0E35", " ", "(", "0E1E", ".", "0E28", ".", ")">>,
       <<"y", "e", "a", "r">>,
       <<"0E1B", "0E35", "0E1E", ".", "0E28", ".">> >> }

\* The first <<column, keyword>> pair, columns outside and keywords inside,
\* that the fallback test of detect_col accepts; kn[k] is norm(keywords[k]).
RECURSIVE DetectFallback(_, _, _)
DetectFallback(columns, kn, prefer_contains) ==
  IF columns = <<>> THEN NoCol
  ELSE LET cn == norm(Head(columns))
       IN IF \E k \in DOMAIN kn :
               IF prefer_contains THEN Contains(cn, kn[k]) ELSE StartsWith(cn, kn[k])
            THEN Head(columns)
            ELSE DetectFallback(Tail(columns), kn, prefer_contains)

\* detect_col(columns, keywords, prefer_contains)
detect_col(columns, keywords, prefer_contains) ==
  LET cols_norm == NormCols(columns)
      kn == [k \in DOMAIN keywords |-> norm(keywords[k])]
      E  == {k \in DOMAIN kn : kn[k] \in DictKeys(cols_norm)}
  IN IF E # {}
       THEN DictGet(cols_norm, kn[CHOOSE k \in E : \A j \in E : k <= j])
       ELSE DetectFallback(columns, kn, prefer_contains)

\* pd.NA
NA == <<0, <<"NA">>>>

\* The cell of row r in the source column `name`.
Cell(r, name) == <<r, name>>

\* A table: its column names and its rows, a row holding one value per
\* column.
DataFrame(columns, nrows) ==
  [columns |-> columns,
   rows    |-> [r \in 1..nrows |-> [c \in DOMAIN columns |-> Cell(r, columns[c])]]]

EmptyFrame(columns) == [columns |-> columns, rows |-> <<>>]

\* df.empty
IsEmpty(df) == df.columns = <<>> \/ df.rows = <<>>

ColumnIndex(df, name) == CHOOSE c \in DOMAIN df.columns : df.columns[c] = name

\* df[names]: the columns called names[1], names[2], ...
SelectColumns(df, names) ==
  [columns |-> names,
   rows    |-> [r \in DOMAIN df.rows |->
                 [k \in DOMAIN names |-> df.rows[r][ColumnIndex(df, names[k])]]]]

\* df[name] = value for a name that is not a column: a new last column.
WithColumn(df, name, value) ==
  [columns |-> Append(df.columns, name),
   rows    |-> [r \in DOMAIN df.rows |-> Append(df.rows[r], value)]]

RECURSIVE FillMissing(_, _)
FillMissing(df, targets) ==
  IF targets = <<>> THEN df
  ELSE IF \E c \in DOMAIN df.columns : df.columns[c] = Head(targets)
    THEN FillMissing(df, Tail(targets))
  ELSE FillMissing(WithColumn(df, Head(targets), NA), Tail(targets))

\* slim_dataframe(df), cmap being what its call of build_col_map returned.
SlimNoReorder(df, cmap) ==
  LET present == SelectSeq(TARGET_ORDER, LAMBDA t : cmap[t] # NoCol)
      picked  == SelectColumns(df, [k \in DOMAIN present |-> cmap[present[k]]])
  IN IF IsEmpty(df) \/ present = <<>> THEN EmptyFrame(TARGET_ORDER)
     ELSE FillMissing([picked EXCEPT !.columns = present], TARGET_ORDER)

slim_dataframe(df, cmap) ==
  LET present == SelectSeq(TARGET_ORDER, LAMBDA t : cmap[t] # NoCol)
      picked  == SelectColumns(df, [k \in DOMAIN present |-> cmap[present[k]]])
  IN IF IsEmpty(df) \/ present = <<>> THEN EmptyFrame(TARGET_ORDER)
     ELSE SelectColumns(FillMissing([picked EXCEPT !.columns = present], TARGET_ORDER),
                        TARGET_ORDER)

\* ---- the tables the mapper is run on ----
MaxCols == 2   \* columns of a source table
MaxRows == 2   \* rows of a source table

\* Column names: exact aliases ("id", "_id", " ID ", "value"), names that
\* start with an alias ("idx", "unit_value", "years", U+0E1B U+0E35 "x"),
\* names that contain one ("uid", "my_id"), a prefix of an alias ("va")
\* and a name that matches nothing ("x").
ColumnPool ==
  { <<"i", "d">>,
    <<"_", "i", "d">>,
    <<" ", "I", "D", " ">>,
    <<"v", "a", "l", "u", "e">>,
    <<"i", "d", "x">>,
    <<"u", "n", "i", "t", "_", "v", "a", "l", "u", "e">>,
    <<"y", "e", "a", "r", "s">>,
    <<"0E1B", "0E35", "x">>,
    <<"u", "i", "d">>,
    <<"m", "y", "_", "i", "d">>,
    <<"v", "a">>,
    <<"x">> }

\* The column lists of a DataFrame built by pd.DataFrame(records),
\* read_csv or read_excel: the names are distinct.
ColumnLists ==
  UNION { {s \in [1..n -> ColumnPool] : \A i, j \in 1..n : i # j => s[i] # s[j]} :
          n \in 0..MaxCols }

Reorderings(s) ==
  {[i \in DOMAIN s |-> s[f[i]]] :
     f \in {g \in [DOMAIN s -> DOMAIN s] : \A i, j \in DOMAIN s : i # j => g[i] # g[j]}}

NoMap == [t \in Targets |-> NoCol]

MapIdle ==
  /\ m_cols = <<>> /\ m_nrows = 0 /\ m_pc = "idle"
  /\ m_map1 = NoMap /\ m_map2 = NoMap /\ m_perm = <<>> /\ m_mapp = NoMap
  /\ m_kw = <<>> /\ m_prefer = TRUE /\ m_det = NoCol /\ m_detp = NoCol
  /\ m_slim = EmptyFrame(<<>>) /\ m_cmap = NoMap

MapInit ==
  /\ m_cols \in ColumnLists
  /\ m_nrows = 0
  /\ m_pc = "start"
  /\ m_map1 = NoMap /\ m_map2 = NoMap /\ m_perm = <<>> /\ m_mapp = NoMap
  /\ m_kw = <<>> /\ m_prefer = TRUE /\ m_det = NoCol /\ m_detp = NoCol
  /\ m_slim = EmptyFrame(<<>>) /\ m_cmap = NoMap

\* A call of build_col_map on the columns.
MapBuild ==
  /\ m_pc = "start"
  /\ m_map1' \in build_col_map(m_cols)
  /\ m_pc' = "built"
  /\ UNCHANGED <<m_cols, m_nrows, m_map2, m_perm, m_mapp, m_kw, m_prefer, m_det,
                 m_detp, m_slim, m_cmap>>

\* The same call in another execution of the script (another hash seed).
MapBuildAgain ==
  /\ m_pc = "built"
  /\ m_map2' \in build_col_map(m_cols)
  /\ m_pc' = "rebuilt"
  /\ UNCHANGED <<m_cols, m_nrows, m_map1, m_perm, m_mapp, m_kw, m_prefer, m_det,
                 m_detp, m_slim, m_cmap>>

\* The call on the same columns in another order.
MapBuildPermuted(perm) ==
  /\ m_pc = "built"
  /\ m_perm' = perm
  /\ m_mapp' \in build_col_map(perm)
  /\ m_pc' = "permuted"
  /\ UNCHANGED <<m_cols, m_nrows, m_map1, m_map2, m_kw, m_prefer, m_det, m_detp,
                 m_slim, m_cmap>>

\* detect_col on the columns, and on the same columns in another order.
MapDetect(keywords, prefer_contains, perm) ==
  /\ m_pc = "start"
  /\ m_kw' = keywords
  /\ m_prefer' = prefer_contains
  /\ m_perm' = perm
  /\ m_det' = detect_col(m_cols, keywords, prefer_contains)
  /\ m_detp' = detect_col(perm, keywords, prefer_contains)
  /\ m_pc' = "detected"
  /\ UNCHANGED <<m_cols, m_nrows, m_map1, m_map2, m_mapp, m_slim, m_cmap>>

\* slim_dataframe on a table of nrows rows with these columns.
MapSlim(nrows) ==
  /\ m_pc = "start"
  /\ m_nrows' = nrows
  /\ \E cmap \in build_col_map(m_cols) :
       /\ m_cmap' = cmap
       /\ m_slim' = slim_dataframe(DataFrame(m_cols, nrows), cmap)
  /\ m_pc' = "slimmed"
  /\ UNCHANGED <<m_cols, m_map1, m_map2, m_perm, m_mapp, m_kw, m_prefer, m_det,
                 m_detp>>

\* -------------------------------------------------------------------------
\*  Cleaning of one field: clean_text, clean_year
\*
\*  Optional[int] is a set: {} is None, {v} is the int v.
\* -------------------------------------------------------------------------

\* A value for which pd.isna is true (None, NaN, pd.NA).
Missing == <<"NaN">>

Digits == <<"0", "1", "2", "3", "4", "5", "6", "7", "8", "9">>

DigitSet == {Digits[i] : i \in DOMAIN Digits}

DigitValue == [ch \in DigitSet |-> (CHOOSE i \in DOMAIN Digits : Digits[i] = ch) - 1]

\* int(s) for a text of decimal digits.
RECURSIVE DigitsToInt(_)
DigitsToInt(s) ==
  IF s = <<>> THEN 0
  ELSE 10 * DigitsToInt(SubSeq(s, 1, Len(s) - 1)) + DigitValue[s[Len(s)]]

\* str(n) for an int n >= 0.
RECURSIVE IntToText(_)
IntToText(n) ==
  IF n < 10 THEN <<Digits[n + 1]>>
  ELSE Append(IntToText(n \div 10), Digits[(n % 10) + 1])

\* s.replace("\u200b", "")
RemoveZeroWidth(s) == SelectSeq(s, LAMBDA ch : ch # "200B")

\* WS_RE.sub(" ", s): every run of whitespace becomes one space.
RECURSIVE CollapseSpaces(_)
CollapseSpaces(s) ==
  IF s = <<>> THEN <<>>
  ELSE IF Head(s) \in WhiteSpace THEN <<" ">> \o CollapseSpaces(LStrip(s))
  ELSE <<Head(s)>> \o CollapseSpaces(Tail(s))

\* clean_text(x)
clean_text(x) ==
  IF x = Missing THEN <<>> ELSE Strip(CollapseSpaces(RemoveZeroWidth(NFC(x))))

\* int(s) succeeds for a text of digits and hyphens when it is digits with
\* at most one hyphen in front.
IsIntText(s) ==
  /\ s # <<>>
  /\ LET d == IF Head(s) = "-" THEN Tail(s) ELSE s
     IN d # <<>> /\ \A i \in DOMAIN d : d[i] \in DigitSet

IntOfText(s) == IF Head(s) = "-" THEN 0 - DigitsToInt(Tail(s)) ELSE DigitsToInt(s)

\* The two ranges of clean_year and the offset between the calendars.
BuddhistLo  == 2400
BuddhistHi  == 2600
BuddhistEra == 543
GregorianLo == 1900
GregorianHi == 2100

\* `if 2400 <= val <= 2600: val = val - 543`
ToGregorianAlways(val) == val - BuddhistEra
ToGregorian(val) == IF BuddhistLo <= val /\ val <= BuddhistHi THEN val - BuddhistEra ELSE val

\* `if 1900 <= val <= 2100: return val` and `return None` after it.
AcceptYearAny(val) == {val}
AcceptYear(val) == IF GregorianLo <= val /\ val <= GregorianHi THEN {val} ELSE {}

\* clean_year of oae_api.py: digits and hyphens are kept.
clean_year(y) ==
  IF y = Missing THEN {}
  ELSE LET s == clean_text(y)
           t == SelectSeq(s, LAMBDA ch : ch \in DigitSet \/ ch = "-")
       IN IF s = <<>> \/ t = <<>> \/ ~IsIntText(t) THEN {}
          ELSE AcceptYear(ToGregorian(IntOfText(t)))

\* clean_year of fisheries_api.py: only the digits are kept.
clean_year_fisheries(y) ==
  IF y = Missing THEN {}
  ELSE LET t == SelectSeq(Strip(y), LAMBDA ch : ch \in DigitSet)
       IN IF t = <<>> THEN {} ELSE AcceptYear(ToGregorian(DigitsToInt(t)))

CleanYearOf(variant, y) ==
  IF variant = "oae" THEN clean_year(y) ELSE clean_year_fisheries(y)

\* ---- the texts clean_year is run on ----
MinYearToken == 1890   \* smallest year written in an input
MaxYearToken == 2610   \* largest year written in an input

\* What stands before the year: nothing, the Thai word for year and a
\* space, a day of the month.
YearPrefixes == { <<>>, <<"0E1B", "0E35", " ">>, <<"1", " ">> }

\* What stands after it: nothing, spaces, the ".0" of a float, the end of
\* a year range, a zero-width space.
YearSuffixes == { <<>>, <<" ", " ">>, <<".", "0">>, <<"-", "6", "1">>, <<"200B">> }

YearIdle ==
  /\ y_tok = 0 /\ y_in = <<>> /\ y_pc = "idle" /\ y_variant = "none"
  /\ y_out = {} /\ y_again = {}

YearInit ==
  /\ y_tok \in MinYearToken..MaxYearToken
  /\ \E pre \in YearPrefixes, suf \in YearSuffixes :
       y_in = pre \o IntToText(y_tok) \o suf
  /\ y_pc = "start" /\ y_variant = "none"
  /\ y_out = {} /\ y_again = {}

\* df[col].apply(clean_year) on one cell, and clean_year on its result.
YearClean(variant) ==
  /\ y_pc = "start"
  /\ y_variant' = variant
  /\ LET out == CleanYearOf(variant, y_in)
     IN /\ y_out' = out
        /\ y_again' = UNION {CleanYearOf(variant, IntToText(v)) : v \in out}
  /\ y_pc' = "cleaned"
  /\ UNCHANGED <<y_tok, y_in>>

\* The same on a missing cell.
YearCleanMissing(variant) ==
  /\ y_pc = "start"
  /\ y_variant' = variant
  /\ y_in' = Missing
  /\ y_out' = CleanYearOf(variant, Missing)
  /\ y_again' = {}
  /\ y_pc' = "missing"
  /\ UNCHANGED y_tok

\* -------------------------------------------------------------------------
\*  Cleaning of a slim table: parse_value, clean_unit, clean_attrib,
\*  convert_value_and_unit, clean_slim_df, and the combined table
\*
\*  A float is [m, e], the number m / 10^e with the trailing zeros of the
\*  fraction removed; Optional[float] is {} or {[m, e]}. A table is the
\*  sequence of its rows, a row a record over TARGET_ORDER.
\* -------------------------------------------------------------------------

RECURSIVE Decimal(_, _)
Decimal(mant, exp) ==
  IF exp > 0 /\ mant % 10 = 0 THEN Decimal(mant \div 10, exp - 1)
  ELSE [m |-> mant, e |-> exp]

\* float(s) succeeds for a text of digits, hyphens and dots when it is an
\* optional hyphen, digits with at most one dot among them, and at least
\* one digit.
IsFloatText(s) ==
  /\ s # <<>>
  /\ LET d == IF Head(s) = "-" THEN Tail(s) ELSE s
     IN /\ \A i \in DOMAIN d : d[i] \in DigitSet \/ d[i] = "."
        /\ Cardinality({i \in DOMAIN d : d[i] = "."}) <= 1
        /\ \E i \in DOMAIN d : d[i] \in DigitSet

FloatOfText(s) ==
  LET d    == IF Head(s) = "-" THEN Tail(s) ELSE s
      dots == {i \in DOMAIN d : d[i] = "."}
      frac == IF dots = {} THEN 0 ELSE Len(d) - (CHOOSE i \in dots : TRUE)
      mant == DigitsToInt(SelectSeq(d, LAMBDA ch : ch # "."))
  IN Decimal(IF Head(s) = "-" THEN 0 - mant ELSE mant, frac)

\* NUM_RE.sub("", s): the characters 0-9, "-", "." and "," stay.
KeepNumeric(s) == SelectSeq(s, LAMBDA ch : ch \in DigitSet \cup {"-", ".", ","})

\* parse_value(v)
parse_value(v) ==
  IF v = Missing THEN {}
  ELSE LET s == clean_text(v)
           t == SelectSeq(KeepNumeric(s), LAMBDA ch : ch # ",")
       IN IF s = <<>> THEN {}
          ELSE IF t \in {<<>>, <<"-">>, <<".">>, <<"-", ".">>, <<".", "-">>} THEN {}
          ELSE IF IsFloatText(t) THEN {FloatOfText(t)}
          ELSE {}

UNIT_MAP ==
  << << <<"0E01", "0E01", ".">>,
        <<"0E01", "0E34", "0E42", "0E25", "0E01", "0E23", "0E31", "0E21">> >>,
     << <<"0E01", "0E01">>,
        <<"0E01", "0E34", "0E42", "0E25", "0E01", "0E23", "0E31", "0E21">> >>,
     << <<"k", "g">>,
        <<"0E01", "0E34", "0E42", "0E25", "0E01", "0E23", "0E31", "0E21">> >>,
     << <<"0E15", "0E31", "0E19">>,
        <<"0E15", "0E31", "0E19">> >>,
     << <<"t">>,
        <<"0E15", "0E31", "0E19">> >>,
     << <<"0E1E", "0E31", "0E19", "0E15", "0E31", "0E19">>,
        <<"0E15", "0E31", "0E19">> >>,
     << <<"0E1A", "0E32", "0E17">>,
        <<"0E1A", "0E32", "0E17">> >>,
     << <<"b", "t">>,
        <<"0E1A", "0E32", "0E17">> >>,
     << <<"b", "a", "h", "t">>,
        <<"0E1A", "0E32", "0E17">> >>,
     << <<"0E44", "0E23", "0E48">>,
        <<"0E44", "0E23", "0E48">> >>,
     << <<"0E15", "0E31", "0E19", "/", "0E44", "0E23", "0E48">>,
        <<"0E15", "0E31", "0E19", "/", "0E44", "0E23", "0E48">> >>,
     << <<"0E01", "0E34", "0E42", "0E25", "0E01", "0E23", "0E31", "0E21", "/", "0E44", "0E23", "0E48">>,
        <<"0E01", "0E34", "0E42", "0E25", "0E01", "0E23", "0E31", "0E21", "/", "0E44", "0E23", "0E48">> >>,
     << <<"0E25", "0E1A", ".", "0E21", ".">>,
        <<"0E25", "0E39", "0E01", "0E1A", "0E32", "0E28", "0E01", "0E4C", "0E40", "0E21", "0E15", "0E23">> >>,
     << <<"0E25", "0E1A", "0E21", ".">>,
        <<"0E25", "0E39", "0E01", "0E1A", "0E32", "0E28", "0E01", "0E4C", "0E40", "0E21", "0E15", "0E23">> >> >>

ATTR_MAP ==
  << << <<"0E1C", "0E25", "0E1C", "0E25", "0E34", "0E15">>,
        <<"p", "r", "o", "d", "u", "c", "t", "i", "o", "n">> >>,
     << <<"0E1C", "0E25", "0E1C", "0E25", "0E34", "0E15", "0E15", "0E48", "0E2D", "0E44", "0E23", "0E48">>,
        <<"y", "i", "e", "l", "d", "_", "p", "e", "r", "_", "r", "a", "i">> >>,
     << <<"0E40", "0E19", "0E37", "0E49", "0E2D", "0E17", "0E35", "0E48", "0E40", "0E1E", "0E32", "0E30", "0E1B", "0E25", "0E39", "0E01">>,
        <<"p", "l", "a", "n", "t", "e", "d", "_", "a", "r", "e", "a">> >>,
     << <<"0E40", "0E19", "0E37", "0E49", "0E2D", "0E17", "0E35", "0E48", "0E40", "0E01", "0E47", "0E1A", "0E40", "0E01", "0E35", "0E48", "0E22", "0E27">>,
        <<"h", "a", "r", "v", "e", "s", "t", "e", "d", "_", "a", "r", "e", "a">> >>,
     << <<"0E40", "0E19", "0E37", "0E49", "0E2D", "0E17", "0E35", "0E48", "0E22", "0E37", "0E19", "0E15", "0E49", "0E19">>,
        <<"p", "e", "r", "e", "n", "n", "i", "a", "l", "_", "a", "r", "e", "a">> >>,
     << <<"0E40", "0E19", "0E37", "0E49", "0E2D", "0E17", "0E35", "0E48", "0E43", "0E2B", "0E49", "0E1C", "0E25">>,
        <<"b", "e", "a", "r", "i", "n", "g", "_", "a", "r", "e", "a">> >>,
     << <<"0E08", "0E33", "0E19", "0E27", "0E19", "0E04", "0E23", "0E31", "0E27", "0E40", "0E23", "0E37", "0E2D", "0E19", "0E1C", "0E39", "0E49", "0E1B", "0E25", "0E39", "0E01">>,
        <<"n", "u", "m", "_", "h", "o", "u", "s", "e", "h", "o", "l", "d", "s">> >>,
     << <<"0E21", "0E39", "0E25", "0E04", "0E48", "0E32">>,
        <<"v", "a", "l", "u", "e">> >> >>

FINAL_ATTR_SET == { <<"p", "r", "o", "d", "u", "c", "t", "i", "o", "n">>, <<"v", "a", "l", "u", "e">> }

\* d.get(key, default) for a table of <<key, value>> pairs.
MapGet(d, key, default) ==
  IF \E i \in DOMAIN d : d[i][1] = key
    THEN d[CHOOSE i \in DOMAIN d : d[i][1] = key][2]
    ELSE default

ThousandTons == <<"0E1E", "0E31", "0E19", "0E15", "0E31", "0E19">>
Tons == <<"0E15", "0E31", "0E19">>
ProvinceWord == <<"0E08", "0E31", "0E07", "0E2B", "0E27", "0E31", "0E14">>

\* clean_unit(u)
clean_unit(u) ==
  LET s == clean_text(u)
  IN IF Lower(s) = Lower(ThousandTons) THEN ThousandTons ELSE s

\* clean_attrib(a)
clean_attrib(a) == Lower(Strip(MapGet(ATTR_MAP, clean_text(a), clean_text(a))))

UpperOf ==
  [ch \in {LowerCase[i] : i \in DOMAIN LowerCase} |->
     UpperCase[CHOOSE i \in DOMAIN LowerCase : LowerCase[i] = ch]]

UpperChar(ch) == IF ch \in DOMAIN UpperOf THEN UpperOf[ch] ELSE ch

\* clean_province(p): the word for province is taken off the front and
\* the first letter of every word is made upper case.
clean_province(p) ==
  LET s == clean_text(p)
      t == IF StartsWith(s, ProvinceWord)
             THEN LStrip(SubSeq(s, Len(ProvinceWord) + 1, Len(s)))
             ELSE s
  IN [i \in DOMAIN t |-> IF i = 1 \/ t[i - 1] = " " THEN UpperChar(t[i]) ELSE t[i]]

\* `value * 1000`
ScaleUnchanged(v) == v
ScaleThousand(v) == Decimal(v.m * 1000, v.e)

\* convert_value_and_unit(value, unit): <<new value, new unit>>
convert_value_and_unit(value, unit) ==
  IF value = {} THEN <<value, unit>>
  ELSE IF unit = ThousandTons THEN <<{ScaleThousand(v) : v \in value}, Tons>>
  ELSE <<value, unit>>

\* One row of `out` before the filters of clean_slim_df.
CleanRow(r) ==
  LET conv == convert_value_and_unit(parse_value(r.value), clean_unit(r.unit))
  IN [ id         |-> Strip(clean_text(r.id)),
       year       |-> clean_year(r.year),
       province   |-> Strip(clean_province(r.province)),
       commod     |-> Strip(clean_text(r.commod)),
       subcommod  |-> Strip(clean_text(r.subcommod)),
       atrriburte |-> Strip(clean_attrib(r.atrriburte)),
       value      |-> conv[1],
       unit       |-> Strip(conv[2]) ]

\* out[out["atrriburte"].isin(FINAL_ATTR_SET)] and dropna(subset=["value"])
KeepsEveryRow(row) == TRUE
KeepsRow(row) == row.atrriburte \in FINAL_ATTR_SET /\ row.value # {}

\* DataFrame.drop_duplicates(): the first of equal rows stays.
RECURSIVE drop_duplicates_from(_, _)
drop_duplicates_from(rows, acc) ==
  IF rows = <<>> THEN acc
  ELSE IF \E i \in DOMAIN acc : acc[i] = Head(rows)
    THEN drop_duplicates_from(Tail(rows), acc)
  ELSE drop_duplicates_from(Tail(rows), Append(acc, Head(rows)))

KeepDuplicates(rows) == rows
drop_duplicates(rows) == drop_duplicates_from(rows, <<>>)

\* clean_slim_df(df)
clean_slim_df(df) ==
  drop_duplicates(SelectSeq([i \in DOMAIN df |-> CleanRow(df[i])], KeepsRow))

\* pd.concat(combined_slim_clean)[TARGET_ORDER].drop_duplicates()
RECURSIVE Concat(_)
Concat(frames) == IF frames = <<>> THEN <<>> ELSE Head(frames) \o Concat(Tail(frames))

CombinedTable(frames) == drop_duplicates(Concat(frames))

\* ---- the tables clean_slim_df is run on ----
MaxCopies == 2   \* times the row under test occurs in its table

AttrPool ==
  { <<"0E1C", "0E25", "0E1C", "0E25", "0E34", "0E15">>,
    <<"0E21", "0E39", "0E25", "0E04", "0E48", "0E32">>,
    <<" ", "V", "a", "l", "u", "e", " ">>,
    <<"0E1C", "0E25", "0E1C", "0E25", "0E34", "0E15", "0E15", "0E48", "0E2D", "0E44", "0E23", "0E48">>,
    Missing }

ValuePool ==
  { <<"5">>,
    <<" ", "1", ",", "2", "3", "4", ".", "5", "0">>,
    <<>>,
    <<" ">>,
    <<"n", "a", "n">>,
    <<"N", "a", "N">>,
    <<"N", "o", "n", "e">>,
    <<"n", "/", "a">>,
    <<"N", "/", "A">>,
    <<"-">>,
    <<"1", ".", "2", ".", "3">>,
    <<"1", "2", "-", "1", "3">>,
    Missing }

\* Every key of UNIT_MAP, the thousand-tons label with a zero-width space
\* and blanks around it, the label with a blank inside, and no unit.
UnitPool ==
  {UNIT_MAP[i][1] : i \in DOMAIN UNIT_MAP}
    \cup { <<" ", "0E1E", "0E31", "0E19", "200B", "0E15", "0E31", "0E19", " ">>,
           <<"0E1E", "0E31", "0E19", " ", "0E15", "0E31", "0E19">>,
           Missing }

\* A row of a slim table with this attribute, value and unit.
SlimRow(attr, value, unit) ==
  [ id         |-> <<"7">>,
    year       |-> <<"2", "5", "6", "0">>,
    province   |-> <<"0E08", "0E31", "0E07", "0E2B", "0E27", "0E31", "0E14", "0E40", "0E0A", "0E35", "0E22", "0E07", "0E43", "0E2B", "0E21", "0E48">>,
    commod     |-> <<"0E02", "0E49", "0E32", "0E27">>,
    subcommod  |-> Missing,
    atrriburte |-> attr,
    value      |-> value,
    unit       |-> unit ]

\* A row that passes every filter.
GoodRow == SlimRow(<<"0E1C", "0E25", "0E1C", "0E25", "0E34", "0E15">>, <<"4", "2">>, Tons)

Copies(row, n) == [i \in 1..n |-> row]

\* The slim tables of the other resource of the run.
OtherTables(rows) == { rows, <<GoodRow>>, <<>>, <<GoodRow, GoodRow>> \o rows }

CleanIdle ==
  /\ c_rows = <<>> /\ c_pc = "idle" /\ c_out = <<>> /\ c_other = <<>> /\ c_all = <<>>

CleanInit ==
  /\ \E attr \in AttrPool, value \in ValuePool, unit \in UnitPool,
        n \in 1..MaxCopies, good \in {"none", "before", "after"} :
       c_rows = (IF good = "before" THEN <<GoodRow>> ELSE <<>>)
                  \o Copies(SlimRow(attr, value, unit), n)
                  \o (IF good = "after" THEN <<GoodRow>> ELSE <<>>)
  /\ c_pc = "start" /\ c_out = <<>> /\ c_other = <<>> /\ c_all = <<>>

\* slim_clean = clean_slim_df(slim_df) for one resource.
CleanTable ==
  /\ c_pc = "start"
  /\ c_out' = clean_slim_df(c_rows)
  /\ c_pc' = "cleaned"
  /\ UNCHANGED <<c_rows, c_other, c_all>>

\* A second resource is cleaned; the frames that are not empty are
\* appended to combined_slim_clean, and the combined table is built when
\* the list is not empty.
CleanCombine(other) ==
  /\ c_pc = "cleaned"
  /\ c_other' = other
  /\ LET second == clean_slim_df(other)
         frames == SelectSeq(<<c_out, second>>, LAMBDA f : f # <<>>)
     IN c_all' = IF frames = <<>> THEN <<>> ELSE CombinedTable(frames)
  /\ c_pc' = "combined"
  /\ UNCHANGED <<c_rows, c_out>>

\* -------------------------------------------------------------------------
\*  The write step: catalog, combined table, prune_outdir
\*
\*  A file name is <<stem, extension>>; an entry of the output directory is
\*  a name with its kind, "file" or "dir".
\* -------------------------------------------------------------------------

NoFile == <<"none", "none">>

File(name) == [name |-> name, kind |-> "file"]
Dir(name)  == [name |-> name, kind |-> "dir"]

CatalogCsv  == <<"catalog", "csv">>
CatalogJson == <<"catalog", "json">>
AllCsv      == <<"ALL", "csv">>
AllParquet  == <<"ALL", "parquet">>

\* The files a script writes with no try around the write, in order:
\* the catalog and the combined CSV of dump_group_slim_clean and
\* dump_group, the two reports of cleandata.main.
WriteList(script, combined) ==
  IF script = "energy"
    THEN << <<"energy_balance_clean", "csv">>, <<"energy_balance_gaps", "csv">> >>
    ELSE <<CatalogCsv, CatalogJson>> \o (IF combined THEN <<AllCsv>> ELSE <<>>)

MaxStray == 2   \* files of other origin in the output directory

\* What the directory can hold before the write step: per-resource files
\* of this run and files of other origin, a sub-directory, the combined
\* Parquet of an earlier run.
StrayFile(i) == File(<<"stray", IntToText(i)>>)

OutdirsBefore ==
  { {StrayFile(i) : i \in 1..n}
      \cup (IF d THEN {Dir(<<"sub", "dir">>)} ELSE {})
      \cup (IF p THEN {File(AllParquet)} ELSE {}) :
    n \in 0..MaxStray, d \in BOOLEAN, p \in BOOLEAN }

WriteIdle ==
  /\ w_script = "idle" /\ w_combined = FALSE /\ w_before = {} /\ w_outdir = {}
  /\ w_todo = <<>> /\ w_pc = "idle" /\ w_written = {} /\ w_lockhit = NoFile
  /\ w_parquet_ok = FALSE /\ w_pruned = FALSE /\ w_pending = {} /\ w_failed = {}

\* The loops over the datasets have ended (the reports of cleandata are
\* built).
WriteInit ==
  /\ w_script \in {"slim", "dump", "energy"}
  /\ w_combined \in BOOLEAN
  /\ w_script = "energy" => w_combined = FALSE
  /\ w_before \in OutdirsBefore
  /\ w_outdir = w_before
  /\ w_todo = WriteList(w_script, w_combined)
  /\ w_pc = "write" /\ w_written = {} /\ w_lockhit = NoFile
  /\ w_parquet_ok = FALSE /\ w_pruned = FALSE /\ w_pending = {} /\ w_failed = {}

\* df.to_csv(path) / df.to_json(path) / open(path, "w"): the next file.
\* The PermissionError of a locked destination is not caught: it ends the
\* run.
WriteFile(locked) ==
  /\ w_pc = "write"
  /\ LET name == Head(w_todo)
         rest == Tail(w_todo)
         next == IF rest # <<>> THEN "write"
                 ELSE IF w_script # "energy" /\ w_combined THEN "parquet"
                 ELSE "done"
     IN IF locked
          THEN /\ w_lockhit' = name
               /\ w_pc' = "aborted"
               /\ UNCHANGED <<w_outdir, w_written, w_todo>>
          ELSE /\ w_outdir' = w_outdir \cup {File(name)}
               /\ w_written' = w_written \cup {name}
               /\ w_todo' = rest
               /\ w_pc' = next
               /\ UNCHANGED w_lockhit
  /\ UNCHANGED <<w_script, w_combined, w_before, w_parquet_ok, w_pruned, w_pending,
                 w_failed>>

\* try: df_all.to_parquet(...) except Exception; then, in
\* dump_group_slim_clean, prune_outdir is called and lists the directory.
WriteParquet(ok) ==
  /\ w_pc = "parquet"
  /\ w_parquet_ok' = ok
  /\ w_outdir' = IF ok THEN w_outdir \cup {File(AllParquet)} ELSE w_outdir
  /\ w_written' = IF ok THEN w_written \cup {AllParquet} ELSE w_written
  /\ IF w_script = "slim"
       THEN /\ w_pruned' = TRUE
            /\ w_pending' = {e.name : e \in w_outdir'}
            /\ w_pc' = "prune"
       ELSE /\ w_pc' = "done"
            /\ UNCHANGED <<w_pruned, w_pending>>
  /\ UNCHANGED <<w_script, w_combined, w_before, w_todo, w_lockhit, w_failed>>

\* `if os.path.isfile(path) and name not in keep`
PruneRemovesAny(entry, parquet_saved) == TRUE
PruneRemoves(entry, parquet_saved) ==
  entry.kind = "file" /\ entry.name \notin PruneKeep(parquet_saved)

\* One iteration of `for name in os.listdir(outdir)` (the order of listdir
\* is arbitrary): os.remove may fail, which is printed.
PruneStep(name, fails) ==
  /\ w_pc = "prune"
  /\ name \in w_pending
  /\ LET entry == CHOOSE e \in w_outdir : e.name = name
     IN IF PruneRemoves(entry, w_parquet_ok)
          THEN IF fails
                 THEN /\ w_failed' = w_failed \cup {name}
                      /\ UNCHANGED w_outdir
                 ELSE /\ w_outdir' = w_outdir \ {entry}
                      /\ UNCHANGED w_failed
          ELSE /\ ~fails
               /\ UNCHANGED <<w_outdir, w_failed>>
  /\ w_pending' = w_pending \ {name}
  /\ w_pc' = IF w_pending' = {} THEN "done" ELSE "prune"
  /\ UNCHANGED <<w_script, w_combined, w_before, w_todo, w_written, w_lockhit,
                 w_parquet_ok, w_pruned>>

\* -------------------------------------------------------------------------
\*  cleandata.py: year_from_filename, extract_one_year, main
\* -------------------------------------------------------------------------

MIN_YEAR == 2015

\* re.findall(r"(20\d{2}|25\d{2})", s): the matches from left to right,
\* none overlapping another.
RECURSIVE FindYearTokens(_)
FindYearTokens(s) ==
  IF Len(s) < 4 THEN <<>>
  ELSE IF /\ s[1] = "2" /\ s[2] \in {"0", "5"}
          /\ s[3] \in DigitSet /\ s[4] \in DigitSet
         THEN <<SubSeq(s, 1, 4)>> \o FindYearTokens(SubSeq(s, 5, Len(s)))
         ELSE FindYearTokens(Tail(s))

\* thai_or_greg_year(s): the first match as an int, less 543 from 2500 on;
\* {} for None.
ThaiYear(y) == IF y >= 2500 THEN y - BuddhistEra ELSE y
thai_or_greg_year(s) ==
  LET found == FindYearTokens(s)
  IN IF found = <<>> THEN {} ELSE {ThaiYear(DigitsToInt(found[1]))}

\* year_from_filename(name): the least year of the tokens; {} for None.
year_from_filename(name) ==
  LET toks == FindYearTokens(name)
      ys   == UNION {thai_or_greg_year(toks[k]) : k \in DOMAIN toks} \ {0}
  IN IF ys = {} THEN {} ELSE {CHOOSE y \in ys : \A z \in ys : y <= z}

\* labels = list(TPES_FORMULAS.keys()) + [spec[0] for spec in FLOW_SPECS]:
\* the label of TPES_FORMULAS and the first label of FLOW_SPECS.
Labels == <<"Wood fuel", "Coal/Lignite">>

LabelSet == {Labels[k] : k \in DOMAIN Labels}

\* The values extract_one_year finds for a label: np.nan (as every value
\* np.isfinite rejects), or a finite float.
NaN == [kind |-> "nan"]

EnergyValues == {NaN, Decimal(25, 1), Decimal(1500, 0)}

\* `if v is None or not np.isfinite(v)`
IsGap(v) == v = NaN

\* extract_one_year(xlsx_path, only_year=only) for a workbook in which the
\* labels have these values: None, or the year and the values.
extract_one_year(name, values, only) ==
  LET year == year_from_filename(name)
  IN IF year = {} \/ (\E y \in year : y < MIN_YEAR) THEN None
     ELSE IF only # {} /\ only # year THEN None
     ELSE [kind |-> "item", year |-> CHOOSE y \in year : TRUE, values |-> values]

\* int(round(v)): the nearest int, the even one of two equally near.
RoundHalfEven(v) ==
  LET den == Pow(10, v.e)
      q   == v.m \div den
      rem == v.m % den
  IN IF 2 * rem < den THEN q
     ELSE IF 2 * rem > den THEN q + 1
     ELSE IF q % 2 = 0 THEN q ELSE q + 1

\* str(n) for an int.
IntStr(n) == IF n < 0 THEN <<"-">> \o IntToText(0 - n) ELSE IntToText(n)

\* sorted(S) for a set of ints.
RECURSIVE SortedSeq(_)
SortedSeq(S) ==
  IF S = {} THEN <<>>
  ELSE LET least == CHOOSE y \in S : \A z \in S : y <= z
       IN <<least>> \o SortedSeq(S \ {least})

\* next((p["values"].get(label) for p in parsed if p["year"] == y), np.nan)
LastOfYear(parsed, label, y) ==
  LET hits == {k \in DOMAIN parsed : parsed[k].year = y}
  IN IF hits = {} THEN NaN
     ELSE parsed[CHOOSE k \in hits : \A j \in hits : j <= k].values[label]
FirstOfYear(parsed, label, y) ==
  LET hits == {k \in DOMAIN parsed : parsed[k].year = y}
  IN IF hits = {} THEN NaN
     ELSE parsed[CHOOSE k \in hits : \A j \in hits : k <= j].values[label]

\* rows_out, each row with its cells as written by map(str, r).
RowsOut(parsed) ==
  LET years == SortedSeq({parsed[k].year : k \in DOMAIN parsed})
      line(label) ==
        [y \in DOMAIN years |->
           LET v == FirstOfYear(parsed, label, years[y])
           IN IF IsGap(v) THEN <<>> ELSE IntStr(RoundHalfEven(v))]
  IN <<[name |-> "Name", cells |-> [y \in DOMAIN years |-> IntStr(years[y])]]>>
     \o [k \in DOMAIN Labels |-> [name |-> Labels[k], cells |-> line(Labels[k])]]

\* gaps, label by label and year by year, as written after "Label,Year".
RECURSIVE GapsOf(_, _, _, _)
GapsOf(parsed, years, k, y) ==
  IF k > Len(Labels) THEN <<>>
  ELSE IF y > Len(years) THEN GapsOf(parsed, years, k + 1, 1)
  ELSE (IF IsGap(FirstOfYear(parsed, Labels[k], years[y]))
          THEN <<[label |-> Labels[k], year |-> IntStr(years[y])]>>
          ELSE <<>>)
       \o GapsOf(parsed, years, k, y + 1)

Gaps(parsed) ==
  GapsOf(parsed, SortedSeq({parsed[k].year : k \in DOMAIN parsed}), 1, 1)

Xlsx == <<".", "x", "l", "s", "x">>

\* Base names of workbooks: Gregorian and Buddhist years, a year before
\* MIN_YEAR, a year after 2024, two years in one name, no year.
FileNames ==
  { <<"2", "0", "1", "5">> \o Xlsx,
    <<"2", "5", "5", "9">> \o Xlsx,
    <<"2", "0", "1", "4">> \o Xlsx,
    <<"2", "0", "2", "5">> \o Xlsx,
    <<"2", "5", "6", "7", "_", "2", "0", "1", "6">> \o Xlsx,
    <<"e", "b">> \o Xlsx }

\* The --only-year argument: absent, or a year.
OnlyYears == {{}, {2016}}

MaxFiles == 2   \* workbooks under INPUT_ROOT

EnergyIdle ==
  /\ e_files = <<>> /\ e_only = {} /\ e_i = 0 /\ e_sheets = <<>>
  /\ e_parsed = <<>> /\ e_pc = "idle" /\ e_csv = <<>> /\ e_gaps = <<>>

\* files = gather_files(INPUT_ROOT); parsed = []
EnergyInit ==
  /\ e_files \in UNION {[1..n -> FileNames] : n \in 0..MaxFiles}
  /\ e_only \in OnlyYears
  /\ e_i = 1
  /\ e_sheets = <<>>
  /\ e_parsed = <<>>
  /\ e_pc = "loop"
  /\ e_csv = <<>>
  /\ e_gaps = <<>>

\* One iteration of `for f in files`, on a workbook with these values.
EnergyExtract(values) ==
  /\ e_pc = "loop" /\ e_i <= Len(e_files)
  /\ LET item == extract_one_year(e_files[e_i], values, e_only)
     IN /\ e_sheets' = Append(e_sheets, item)
        /\ e_parsed' = IF item # None THEN Append(e_parsed, item) ELSE e_parsed
  /\ e_i' = e_i + 1
  /\ UNCHANGED <<e_files, e_only, e_pc, e_csv, e_gaps>>

\* `if not files: ... sys.exit(0)`, `if not parsed: ... sys.exit(0)`
EnergyExit ==
  /\ e_pc = "loop" /\ e_i > Len(e_files)
  /\ e_parsed = <<>>
  /\ e_pc' = "exit"
  /\ UNCHANGED <<e_files, e_only, e_i, e_sheets, e_parsed, e_csv, e_gaps>>

\* The rest of main: the clean CSV and the gap report are written.
EnergyWrite ==
  /\ e_pc = "loop" /\ e_i > Len(e_files)
  /\ e_parsed # <<>>
  /\ e_csv' = RowsOut(e_parsed)
  /\ e_gaps' = Gaps(e_parsed)
  /\ e_pc' = "done"
  /\ UNCHANGED <<e_files, e_only, e_i, e_sheets, e_parsed>>

\* -------------------------------------------------------------------------
\*  Specifications
\* -------------------------------------------------------------------------

NextHttp ==
  \/ /\ HttpAttemptOk
     /\ UNCHANGED <<fVars, rVars, mVars, yVars, cVars, wVars, eVars>>
  \/ /\ \E e \in HttpFailures : HttpAttemptFail(e)
     /\ UNCHANGED <<fVars, rVars, mVars, yVars, cVars, wVars, eVars>>
  \/ /\ HttpFallThrough
     /\ UNCHANGED <<fVars, rVars, mVars, yVars, cVars, wVars, eVars>>

InitHttp == HttpInit /\ FetchIdle /\ RunIdle /\ MapIdle /\ YearIdle /\ CleanIdle /\ WriteIdle /\ EnergyIdle

SpecHttp == InitHttp /\ [][NextHttp]_vars

NextFetch ==
  \/ /\ FetchPage
     /\ UNCHANGED <<hgVars, rVars, mVars, yVars, cVars, wVars, eVars>>
  \/ /\ \E n \in 0..(f_page + 1), reported \in {{}} \cup {{t} : t \in 0..f_total} :
          FetchPageAny(n, reported)
     /\ UNCHANGED <<hgVars, rVars, mVars, yVars, cVars, wVars, eVars>>
  \/ /\ FetchHttpError
     /\ UNCHANGED <<hgVars, rVars, mVars, yVars, cVars, wVars, eVars>>
  \/ /\ FetchNotSuccess
     /\ UNCHANGED <<hgVars, rVars, mVars, yVars, cVars, wVars, eVars>>

InitFetch == FetchInit /\ HttpIdle /\ RunIdle /\ MapIdle /\ YearIdle /\ CleanIdle /\ WriteIdle /\ EnergyIdle

SpecFetch == InitFetch /\ [][NextFetch]_vars

\* The loop body always runs to its end: http_get returns or raises after
\* at most `retries` requests, each with a timeout.
SpecFetchFair == InitFetch /\ [][NextFetch]_vars /\ WF_vars(NextFetch)

NextRun ==
  \/ /\ RunListPage
     /\ UNCHANGED <<hgVars, fVars, mVars, yVars, cVars, wVars, eVars>>
  \/ /\ RunListFail
     /\ UNCHANGED <<hgVars, fVars, mVars, yVars, cVars, wVars, eVars>>
  \/ /\ RunEndOfPage
     /\ UNCHANGED <<hgVars, fVars, mVars, yVars, cVars, wVars, eVars>>
  \/ /\ \E titled \in BOOLEAN, nres \in 0..(MaxResources - r_n) :
          RunDataset(titled, nres)
     /\ UNCHANGED <<hgVars, fVars, mVars, yVars, cVars, wVars, eVars>>
  \/ /\ \E in \in ResourceInputs : (r_script # "stat" => in.named) /\ RunResource(in)
     /\ UNCHANGED <<hgVars, fVars, mVars, yVars, cVars, wVars, eVars>>
  \/ /\ \E parquet_ok \in BOOLEAN : RunWrite(parquet_ok)
     /\ UNCHANGED <<hgVars, fVars, mVars, yVars, cVars, wVars, eVars>>

InitRun == RunInit /\ HttpIdle /\ FetchIdle /\ MapIdle /\ YearIdle /\ CleanIdle /\ WriteIdle /\ EnergyIdle

SpecRun == InitRun /\ [][NextRun]_vars

NextMap ==
  \/ /\ MapBuild
     /\ UNCHANGED <<hgVars, fVars, rVars, yVars, cVars, wVars, eVars>>
  \/ /\ MapBuildAgain
     /\ UNCHANGED <<hgVars, fVars, rVars, yVars, cVars, wVars, eVars>>
  \/ /\ \E perm \in Reorderings(m_cols) : MapBuildPermuted(perm)
     /\ UNCHANGED <<hgVars, fVars, rVars, yVars, cVars, wVars, eVars>>
  \/ /\ \E keywords \in DetectKeywords, prefer_contains \in BOOLEAN,
          perm \in Reorderings(m_cols) :
          MapDetect(keywords, prefer_contains, perm)
     /\ UNCHANGED <<hgVars, fVars, rVars, yVars, cVars, wVars, eVars>>
  \/ /\ \E nrows \in 0..MaxRows : MapSlim(nrows)
     /\ UNCHANGED <<hgVars, fVars, rVars, yVars, cVars, wVars, eVars>>

InitMap == MapInit /\ HttpIdle /\ FetchIdle /\ RunIdle /\ YearIdle /\ CleanIdle /\ WriteIdle /\ EnergyIdle

SpecMap == InitMap /\ [][NextMap]_vars

NextYear ==
  \/ /\ \E variant \in {"oae", "fisheries"} : YearClean(variant)
     /\ UNCHANGED <<hgVars, fVars, rVars, mVars, cVars, wVars, eVars>>
  \/ /\ \E variant \in {"oae", "fisheries"} : YearCleanMissing(variant)
     /\ UNCHANGED <<hgVars, fVars, rVars, mVars, cVars, wVars, eVars>>

InitYear == YearInit /\ HttpIdle /\ FetchIdle /\ RunIdle /\ MapIdle /\ CleanIdle /\ WriteIdle /\ EnergyIdle

SpecYear == InitYear /\ [][NextYear]_vars

NextClean ==
  \/ /\ CleanTable
     /\ UNCHANGED <<hgVars, fVars, rVars, mVars, yVars, wVars, eVars>>
  \/ /\ \E other \in OtherTables(c_rows) : CleanCombine(other)
     /\ UNCHANGED <<hgVars, fVars, rVars, mVars, yVars, wVars, eVars>>

InitClean == CleanInit /\ HttpIdle /\ FetchIdle /\ RunIdle /\ MapIdle /\ YearIdle /\ WriteIdle /\ EnergyIdle

SpecClean == InitClean /\ [][NextClean]_vars

NextWrite ==
  \/ /\ \E locked \in BOOLEAN : WriteFile(locked)
     /\ UNCHANGED <<hgVars, fVars, rVars, mVars, yVars, cVars, eVars>>
  \/ /\ \E ok \in BOOLEAN : WriteParquet(ok)
     /\ UNCHANGED <<hgVars, fVars, rVars, mVars, yVars, cVars, eVars>>
  \/ /\ \E name \in w_pending, fails \in BOOLEAN : PruneStep(name, fails)
     /\ UNCHANGED <<hgVars, fVars, rVars, mVars, yVars, cVars, eVars>>

InitWrite == WriteInit /\ HttpIdle /\ FetchIdle /\ RunIdle /\ MapIdle /\ YearIdle /\ CleanIdle /\ EnergyIdle

SpecWrite == InitWrite /\ [][NextWrite]_vars

NextEnergy ==
  \/ /\ \E values \in [LabelSet -> EnergyValues] : EnergyExtract(values)
     /\ UNCHANGED <<hgVars, fVars, rVars, mVars, yVars, cVars, wVars>>
  \/ /\ EnergyExit
     /\ UNCHANGED <<hgVars, fVars, rVars, mVars, yVars, cVars, wVars>>
  \/ /\ EnergyWrite
     /\ UNCHANGED <<hgVars, fVars, rVars, mVars, yVars, cVars, wVars>>

InitEnergy == EnergyInit /\ HttpIdle /\ FetchIdle /\ RunIdle /\ MapIdle /\ YearIdle /\ CleanIdle /\ WriteIdle

SpecEnergy == InitEnergy /\ [][NextEnergy]_vars

\* -------------------------------------------------------------------------
\*  Properties of http_get and datastore_fetch_all
\* -------------------------------------------------------------------------

\* C1: against a server that reports a fixed total T and answers offset o
\* with the records o..min(o+page_size,T)-1, datastore_fetch_all returns
\* exactly the T records, each once and in server order, and request k is
\* sent with offset = number of records received in requests 1..k-1.
C1_FetchAllComplete ==
  f_mode = "total" =>
    /\ f_pc = "returned" => f_all = ServerRecords(f_total)
    /\ Len(f_all) <= f_total
    /\ f_all = SubSeq(ServerRecords(f_total), 1, Len(f_all))
    /\ \A k \in 1..Len(f_reqs) :
         f_reqs[k] = SumSeq(SubSeq(f_got, 1, Min(k - 1, Len(f_got))))

\* A call that needed more than one page and returned all the records.
C1_Witness ==
  /\ f_mode = "total" /\ f_pc = "returned"
  /\ f_total > f_page /\ Len(f_reqs) >= 2
  /\ f_all = ServerRecords(f_total)

\* C2: for retries >= 1, http_get issues at most `retries` GETs, issues no
\* request after the first attempt that succeeds, and returns that
\* attempt's response.
C2_AtMostRetriesRequests ==
  hg_retries >= 1 =>
    /\ Len(hg_requests) <= hg_retries
    /\ \A k \in 1..Len(hg_requests) :
         hg_requests[k] = "ok" =>
           /\ k = Len(hg_requests)
           /\ hg_pc = "returned"
           /\ hg_result = [kind |-> "response", attempt |-> k]

\* A call that succeeded on a retry.
C2_Witness ==
  /\ hg_retries = MaxRetries /\ hg_pc = "returned"
  /\ Len(hg_requests) = 2 /\ hg_requests[1] # "ok" /\ hg_requests[2] = "ok"

\* C3: for retries >= 1, when each of the `retries` attempts fails,
\* http_get raises the failure of the last attempt; a call never returns
\* normally without the response of a successful attempt.
C3_RaisesLastFailure ==
  hg_retries >= 1 =>
    /\ ( /\ Len(hg_requests) = hg_retries
         /\ \A k \in 1..hg_retries : hg_requests[k] \in HttpFailures )
       => /\ hg_pc = "raised"
          /\ hg_result = [kind |-> "error", error |-> hg_requests[hg_retries],
                          attempt |-> hg_retries]
    /\ hg_pc = "returned"
       => /\ hg_result.kind = "response"
          /\ hg_requests[hg_result.attempt] = "ok"

\* Every attempt failed, with different failures, and the last was raised.
C3_Witness ==
  /\ hg_retries = 2 /\ hg_pc = "raised"
  /\ hg_requests = <<"Timeout", "HTTPError">>
  /\ hg_result.error = "HTTPError"

\* -------------------------------------------------------------------------
\*  Properties of the dump_group* runs
\* -------------------------------------------------------------------------

\* C4: a failure while reading the fields or fetching the records of one
\* resource never aborts the run: no run ends with an exception of a
\* resource step; a run that reaches the write step has been through every
\* dataset of the group and every resource of the datasets it entered, with
\* a catalog row for each resource that passes the name filters; and the
\* catalog and the combined table saved hold those rows and the resources
\* that gave rows.
C4_ResourceFailureNeverAborts ==
  /\ r_abort # "resource"
  /\ r_pc \in {"write", "done"} =>
       /\ r_yielded = r_count
       /\ r_n = r_announced
       /\ r_catalog = r_listed
  /\ r_pc = "done" =>
       /\ r_saved.catalog = r_listed
       /\ r_saved.combined = IF r_combined = <<>> THEN None ELSE r_combined

\* The first resource failed; a later resource of the same dataset and one
\* of a later dataset were processed, and the last one is in the combined
\* table saved.
C4_Witness ==
  /\ r_pc = "done" /\ r_firstfail = 1
  /\ r_yielded = 2 /\ r_catalog = <<1, 2, 3>>
  /\ r_saved.combined = <<3>>

\* C5: when the dataset listing fails after its retries (on the first page
\* or on a later one), the error is skipped and the run still reaches the
\* step that writes the catalog and the combined output: a listing failure
\* never ends the run.
C5_ListingFailureNotFatal ==
  r_abort = "listing" => r_pc \in {"list", "dataset", "resource", "write", "done"}

\* -------------------------------------------------------------------------
\*  Properties of the column mapping
\* -------------------------------------------------------------------------

ColumnSet == {m_cols[i] : i \in DOMAIN m_cols}

\* The columns whose normalized name is a normalized alias of the target.
ExactColumns(target) == {c \in ColumnSet : norm(c) \in NormAliases[target]}

\* The columns whose normalized name starts with an alias of the target.
StartsWithAliasColumns(target) ==
  {c \in ColumnSet : \E a \in NormAliases[target] : StartsWith(norm(c), a)}

\* The columns whose normalized name contains an alias of the target that
\* has at least `least` characters.
ContainsAliasColumns(target, least) ==
  {c \in ColumnSet : \E a \in NormAliases[target] : Len(a) >= least /\ Contains(norm(c), a)}

\* The columns whose normalized name is a prefix of an alias of the target.
PrefixOfAliasColumns(target) ==
  {c \in ColumnSet : \E a \in NormAliases[target] : StartsWith(a, norm(c))}

KeywordSet == {norm(m_kw[k]) : k \in DOMAIN m_kw}

\* C6: in build_col_map and in detect_col, when the normalized name of a
\* column equals a normalized alias of the target field, the column
\* returned for the field is a column matched exactly, whatever columns
\* match by prefix or by substring and wherever they stand in the list.
C6_ExactMatchPriority ==
  /\ m_pc \in {"built", "rebuilt", "permuted"} =>
       \A t \in Targets : ExactColumns(t) # {} => m_map1[t] \in ExactColumns(t)
  /\ m_pc = "detected" =>
       ((\E c \in ColumnSet : norm(c) \in KeywordSet) =>
          (m_det \in ColumnSet /\ norm(m_det) \in KeywordSet))

\* "idx" starts with the alias "id" and comes first, "id" is the alias.
C6_Witness ==
  /\ m_pc = "built"
  /\ m_cols = << <<"i", "d", "x">>, <<"i", "d">> >>
  /\ m_map1["id"] = <<"i", "d">>

FallbackMatch(c, kw) ==
  IF m_prefer THEN Contains(norm(c), norm(kw)) ELSE StartsWith(norm(c), norm(kw))

MatchingKeywords ==
  {k \in DOMAIN m_kw : \E c \in ColumnSet : FallbackMatch(c, m_kw[k])}

\* C8: when several columns match aliases of one field at the same stage,
\* the column returned is the one matched by the alias that comes first in
\* the alias list, and the same source column is returned for the same
\* columns in any other order.
C8_TieByAliasOrder ==
  /\ m_pc = "detected" =>
       /\ m_det = m_detp
       /\ ((\A c \in ColumnSet : norm(c) \notin KeywordSet) /\ MatchingKeywords # {}) =>
            FallbackMatch(m_det,
              m_kw[CHOOSE k \in MatchingKeywords : \A j \in MatchingKeywords : k <= j])
  /\ m_pc = "permuted" =>
       \A t \in Targets : ExactColumns(t) = {} => m_mapp[t] = m_map1[t]

\* C9: two executions of build_col_map on the same columns and the same
\* alias table return the same source column for every field.
C9_Deterministic ==
  m_pc = "rebuilt" => m_map2 = m_map1

\* C10: slim_dataframe returns exactly the columns of TARGET_ORDER in that
\* order; a field without a source column holds pd.NA in every row, a
\* matched field holds the values of its source column row for row; a
\* table without data, or in which no field is matched, gives an empty
\* table of those 8 columns.
C10_SlimShape ==
  m_pc = "slimmed" =>
    /\ m_slim.columns = TARGET_ORDER
    /\ Len(m_slim.columns) = 8
    /\ \A r \in DOMAIN m_slim.rows : Len(m_slim.rows[r]) = 8
    /\ IF m_cols = <<>> \/ m_nrows = 0 \/ (\A t \in Targets : m_cmap[t] = NoCol)
         THEN m_slim.rows = <<>>
         ELSE /\ Len(m_slim.rows) = m_nrows
              /\ \A r \in 1..m_nrows, k \in DOMAIN TARGET_ORDER :
                   m_slim.rows[r][k] =
                     IF m_cmap[TARGET_ORDER[k]] = NoCol THEN NA
                     ELSE Cell(r, m_cmap[TARGET_ORDER[k]])

\* A table of two rows in which "value" is matched and "id" is not.
C10_Witness ==
  /\ m_pc = "slimmed"
  /\ m_nrows = 2
  /\ m_cols = << <<"x">>, <<"v", "a", "l", "u", "e">> >>
  /\ m_slim.rows[2][7] = Cell(2, <<"v", "a", "l", "u", "e">>)
  /\ m_slim.rows[2][1] = NA

\* -------------------------------------------------------------------------
\*  Properties of clean_year
\* -------------------------------------------------------------------------

\* The input is the year and nothing else.
PlainYear == y_in = IntToText(y_tok)

\* C11 (as the code has it): for an input whose year token is an integer y
\* with 2443 <= y <= 2600 the result is y - 543, which lies in 1900..2100;
\* for 2400 <= y <= 2442 the difference is below 1900 and the result is
\* absent.
C11_BuddhistYear ==
  (y_pc = "cleaned" /\ PlainYear /\ BuddhistLo <= y_tok /\ y_tok <= BuddhistHi) =>
    IF y_tok >= GregorianLo + BuddhistEra
      THEN /\ y_out = {y_tok - BuddhistEra}
           /\ GregorianLo <= y_tok - BuddhistEra /\ y_tok - BuddhistEra <= GregorianHi
      ELSE y_out = {}

\* 2560 gives 2017.
C11_Witness ==
  /\ y_pc = "cleaned"
  /\ y_in = <<"2", "5", "6", "0">>
  /\ y_out = {2017}

\* C11 as stated: for every input whose year token is an integer y with
\* 2400 <= y <= 2600 the result is y - 543 and lies within 1900..2100.
C11_AsStated ==
  (y_pc = "cleaned" /\ PlainYear /\ BuddhistLo <= y_tok /\ y_tok <= BuddhistHi) =>
    /\ y_out = {y_tok - BuddhistEra}
    /\ GregorianLo <= y_tok - BuddhistEra /\ y_tok - BuddhistEra <= GregorianHi

\* C12: clean_year returns absent or an integer in 1900..2100; an integer
\* already in 1900..2100 is returned unchanged, 543 is subtracted only from
\* integers in 2400..2600, a value outside 1900..2100 after that step is
\* absent, and clean_year of a result is that result.
C12_YearRange ==
  y_pc \in {"cleaned", "missing"} =>
    /\ \A v \in y_out : GregorianLo <= v /\ v <= GregorianHi
    /\ y_again = y_out
    /\ y_pc = "missing" => y_out = {}
    /\ (y_pc = "cleaned" /\ PlainYear) =>
         /\ (GregorianLo <= y_tok /\ y_tok <= GregorianHi) => y_out = {y_tok}
         /\ (y_tok < BuddhistLo \/ y_tok > BuddhistHi) => y_out \subseteq {y_tok}
         /\ (y_tok < GregorianLo \/ (y_tok > GregorianHi /\ y_tok < BuddhistLo)
               \/ y_tok > BuddhistHi) => y_out = {}

\* 2000 stays 2000, also the second time.
C12_Witness ==
  /\ y_pc = "cleaned"
  /\ y_in = <<"2", "0", "0", "0">>
  /\ y_out = {2000}
  /\ y_again = {2000}

\* C13: for a text that holds one 4-digit year (1900..2100, or a Buddhist
\* year) together with other characters, further digits or a hyphenated
\* suffix included, the result is the year of that token, not absent.
C13_YearToken ==
  (/\ y_pc = "cleaned"
   /\ \/ GregorianLo <= y_tok /\ y_tok <= GregorianHi
      \/ GregorianLo + BuddhistEra <= y_tok /\ y_tok <= BuddhistHi) =>
    y_out = {IF y_tok >= BuddhistLo THEN y_tok - BuddhistEra ELSE y_tok}

\* -------------------------------------------------------------------------
\*  Properties of clean_slim_df and of the combined table
\* -------------------------------------------------------------------------

Production == <<"p", "r", "o", "d", "u", "c", "t", "i", "o", "n">>
ValueAttr  == <<"v", "a", "l", "u", "e">>

\* A value text that is blank, "nan", "none" or "n/a" in any letter case,
\* a missing value, or a text that is not a number.
BadValue(v) ==
  \/ v = Missing
  \/ Lower(Strip(v)) \in { <<>>, <<"n", "a", "n">>, <<"n", "o", "n", "e">>, <<"n", "/", "a">> }
  \/ v \in { <<"-">>, <<"1", ".", "2", ".", "3">>, <<"1", "2", "-", "1", "3">> }

RowsOf(table) == {table[i] : i \in DOMAIN table}

\* C14: every row that clean_slim_df outputs, and every row of the combined
\* table, has a numeric value and the attribute "production" or "value"; a
\* row whose value is blank, "nan", "none", "n/a" or not a number is not
\* in the output, and the other rows of its table still are.
C14_CleanRows ==
  c_pc \in {"cleaned", "combined"} =>
    /\ \A o \in RowsOf(c_out) \cup RowsOf(c_all) :
         o.value # {} /\ o.atrriburte \in {Production, ValueAttr}
    /\ \A o \in RowsOf(c_out) :
         \E r \in RowsOf(c_rows) : o = CleanRow(r) /\ ~BadValue(r.value)
    /\ GoodRow \in RowsOf(c_rows) => CleanRow(GoodRow) \in RowsOf(c_out)

\* A row with the value "nan" before a good row: only the good row is
\* output.
C14_Witness ==
  /\ c_pc = "cleaned"
  /\ c_rows = <<SlimRow(<<"0E1C", "0E25", "0E1C", "0E25", "0E34", "0E15">>,
                        <<"n", "a", "n">>, Tons), GoodRow>>
  /\ c_out = <<CleanRow(GoodRow)>>

\* The row is one that the attribute filter and the value filter keep.
Kept(r) ==
  /\ clean_attrib(r.atrriburte) \in {Production, ValueAttr}
  /\ ~BadValue(r.value)

\* A thousand times the number the value text stands for.
ThousandTimes(v) ==
  CASE v = <<"5">> -> [m |-> 5000, e |-> 0]
    [] v = <<"4", "2">> -> [m |-> 42000, e |-> 0]
    [] v = <<" ", "1", ",", "2", "3", "4", ".", "5", "0">> -> [m |-> 1234500, e |-> 0]

\* C15: a row that is kept, whose unit text is the thousand-tons label
\* after NFC, removal of zero-width characters and collapsing and trimming
\* of whitespace, and whose value parses to v, is output with the value
\* 1000*v and the tons label; 5 gives 5000.
C15_ThousandTons ==
  c_pc \in {"cleaned", "combined"} =>
    \A r \in RowsOf(c_rows) :
      (Kept(r) /\ r.unit # Missing /\ clean_text(r.unit) = ThousandTons) =>
        /\ \E o \in RowsOf(c_out) :
             /\ o.value = {ThousandTimes(r.value)}
             /\ o.unit = Tons
             /\ o.id = <<"7">>
        /\ \A o \in RowsOf(c_out) :
             o = CleanRow(r) => (o.value = {ThousandTimes(r.value)} /\ o.unit = Tons)

\* Value 5 with the label written with blanks and a zero-width space.
C15_Witness ==
  /\ c_pc = "cleaned"
  /\ c_rows = <<SlimRow(<<"0E1C", "0E25", "0E1C", "0E25", "0E34", "0E15">>, <<"5">>,
                        <<" ", "0E1E", "0E31", "0E19", "200B", "0E15", "0E31", "0E19", " ">>)>>
  /\ Len(c_out) = 1
  /\ c_out[1].value = {[m |-> 5000, e |-> 0]}
  /\ c_out[1].unit = Tons

UnitKeys == {UNIT_MAP[i][1] : i \in DOMAIN UNIT_MAP}

\* C16: a row that is kept and carries a unit that is a key of UNIT_MAP is
\* output with the canonical label of the table as unit, and converting an
\* output row a second time changes neither its value nor its unit.
C16_UnitCanonical ==
  c_pc \in {"cleaned", "combined"} =>
    /\ \A r \in RowsOf(c_rows) :
         (Kept(r) /\ r.unit \in UnitKeys) =>
           \E o \in RowsOf(c_out) :
             o = CleanRow(r) /\ o.unit = MapGet(UNIT_MAP, r.unit, r.unit)
    /\ \A o \in RowsOf(c_out) :
         convert_value_and_unit(o.value, o.unit) = <<o.value, o.unit>>

\* C17: the combined table holds no two rows that agree on all 8 fields,
\* and every cleaned row of each resource is in it.
C17_CombinedDistinct ==
  c_pc = "combined" =>
    /\ \A i, j \in DOMAIN c_all : i # j => c_all[i] # c_all[j]
    /\ \A o \in RowsOf(c_out) \cup RowsOf(clean_slim_df(c_other)) :
         Cardinality({i \in DOMAIN c_all : c_all[i] = o}) = 1
    /\ \A o \in RowsOf(c_all) :
         \E r \in RowsOf(c_rows) \cup RowsOf(c_other) : Kept(r) /\ o = CleanRow(r)

\* Both resources give the same two rows; the combined table has them once.
C17_Witness ==
  /\ c_pc = "combined"
  /\ c_other = c_rows
  /\ Len(c_out) = 2
  /\ Len(c_all) = 2

\* -------------------------------------------------------------------------
\*  Properties of the write step and of prune_outdir
\* -------------------------------------------------------------------------

\* C18: when the write of an output file finds the destination locked, the
\* writer goes on under another file name and the run completes; the
\* write error does not end the run.
C18_LockFallback ==
  w_lockhit # NoFile => w_pc # "aborted"

\* C19: a run of dump_group_slim_clean or dump_group that completes leaves
\* the catalog it wrote in the output directory, and the catalog has one
\* entry for every resource the run inspected.
C19_CatalogKept ==
  (r_pc = "done" /\ r_script \in {"slim", "dump"}) =>
    /\ {CatalogCsv, CatalogJson} \subseteq r_outdir
    /\ r_saved.catalog = [i \in 1..r_n |-> i]

FilesOf(outdir) == {e \in outdir : e.kind = "file"}

\* C20: prune_outdir runs only when the combined table was written; it
\* never deletes the combined CSV nor the combined Parquet saved in the
\* run, and no directory; when no deletion fails, no regular file but
\* those is left; a deletion that fails is reported and the others are
\* still done.
C20_PruneFrame ==
  /\ w_pruned => (w_combined /\ AllCsv \in w_written)
  /\ w_pc \in {"prune", "done"} =>
       /\ \A name \in w_written \cap {AllCsv, AllParquet} : File(name) \in w_outdir
       /\ \A e \in w_before : e.kind = "dir" => e \in w_outdir
  /\ (w_pc = "done" /\ w_pruned) =>
       /\ \A e \in FilesOf(w_outdir) :
            e.name \in (w_written \cap {AllCsv, AllParquet}) \cup w_failed
       /\ \A e \in FilesOf(w_before) \cup {File(CatalogCsv), File(CatalogJson)} :
            (e.name \notin w_written \cap {AllCsv, AllParquet} /\ e.name \notin w_failed)
              => e \notin w_outdir
       /\ w_failed = {} => FilesOf(w_outdir) = {File(n) : n \in w_written \cap {AllCsv, AllParquet}}

\* One deletion failed, the catalog was still deleted, the sub-directory
\* and the two combined files are there.
C20_Witness ==
  /\ w_pc = "done"
  /\ w_pruned
  /\ w_failed = {<<"stray", <<"1">>>>}
  /\ w_outdir = {File(AllCsv), File(AllParquet), Dir(<<"sub", "dir">>),
                 File(<<"stray", <<"1">>>>)}

\* -------------------------------------------------------------------------
\*  Backoff of http_get
\* -------------------------------------------------------------------------

\* a/b < c/d for fractions with positive denominators.
FracLess(x, y) == x[1] * y[2] < y[1] * x[2]

\* The failed attempts of the call so far.
FailedAttempts == {k \in 1..Len(hg_requests) : hg_requests[k] \in HttpFailures}

\* C21: http_get backs off exponentially and only between attempts: the
\* k-th wait is backoff^k seconds and follows the k-th failed attempt, with
\* k < retries; while the loop runs every attempt made has failed and has
\* been followed by its wait; a call that returned or raised has waited
\* once per attempt but the last one (the successful one, or the last
\* failed one); and for backoff > 1 each wait is longer than the one before.
C21_BackoffBetweenAttempts ==
  /\ \A k \in 1..Len(hg_sleeps) :
       /\ k < hg_retries
       /\ k \in FailedAttempts
       /\ hg_sleeps[k] = <<Pow(hg_backoff[1], k), Pow(hg_backoff[2], k)>>
  /\ hg_pc = "loop" => Len(hg_sleeps) = Len(hg_requests)
  /\ (hg_pc \in {"returned", "raised"} /\ hg_requests # <<>>)
       => Len(hg_sleeps) = Len(hg_requests) - 1
  /\ hg_pc = "raised" => Len(hg_sleeps) = hg_retries - 1
  /\ FracLess(<<1, 1>>, hg_backoff)
       => \A k \in 1..(Len(hg_sleeps) - 1) :
            FracLess(hg_sleeps[k], hg_sleeps[k + 1])

\* A call with retries = 3 and backoff 1.6 whose three attempts failed: it
\* waited 1.6 s and 2.56 s, and nothing after the third failure.
C21_Witness ==
  /\ hg_retries = 3 /\ hg_backoff = <<16, 10>> /\ hg_pc = "raised"
  /\ Len(hg_requests) = 3
  /\ hg_sleeps = <<(<<16, 10>>), (<<256, 100>>)>>

\* -------------------------------------------------------------------------
\*  The file fallback of dump_group_slim_clean
\* -------------------------------------------------------------------------

\* C22: in dump_group_slim_clean the download URL of a resource is
\* requested only for a resource whose datastore is inactive: the last
\* download of a run was never that of a resource with datastore_active
\* true.
C22_DownloadOnlyInactive ==
  (r_script = "slim" /\ r_download # None) => ~r_download.active

\* -------------------------------------------------------------------------
\*  Termination of the paging loops
\* -------------------------------------------------------------------------

\* An empty page was received, and it was not the last thing the loop did.
RequestAfterEmptyPage ==
  \E k \in 1..Len(f_got) :
    f_got[k] = 0 /\ ~(k = Len(f_got) /\ Len(f_reqs) = k /\ f_pc = "returned")

\* C24: datastore_fetch_all and iter_all_datasets_in_group terminate
\* against every server whose reported total (count) is at most f_total:
\* at most f_total + 1 page requests are sent and none after an empty page,
\* every iteration that does not end the loop strictly increases the
\* offset, and the loop eventually returns or raises.
C24_PagingTerminates ==
  /\ [](Len(f_reqs) <= f_total + 1 /\ ~RequestAfterEmptyPage)
  /\ [][f_pc' = "loop" => f_offset' > f_offset]_vars
  /\ <>(f_pc \in {"returned", "raised"})

\* The server answered two pages against a reported total that was not
\* reached, then an empty page, which ended the loop.
C24_Witness ==
  /\ f_mode = "any" /\ f_pc = "returned"
  /\ Len(f_reqs) = 3 /\ f_got[3] = 0 /\ f_offset < f_total

\* -------------------------------------------------------------------------
\*  A datastore_search response without `total`
\* -------------------------------------------------------------------------

\* C25: when a response of datastore_search carries no total,
\* datastore_fetch_all stops after that page: the response is the last one
\* received, no further request is sent, and the call returns the records
\* received up to that page and no others, whether or not the page was
\* full and the server holds more records.
C25_StopsWithoutTotal ==
  f_loop = "datastore_fetch_all" =>
    \A k \in 1..Len(f_seen) :
      f_seen[k] = {} =>
        /\ k = Len(f_seen) /\ Len(f_reqs) = k /\ f_pc = "returned"
        /\ Len(f_all) = SumSeq(f_got)
        /\ f_mode = "nototal" => f_all = ServerPage(f_total, 0, f_page)

\* The server holds more records than a page, answers a full first page
\* without a total, and the call returned that page only.
C25_Witness ==
  /\ f_loop = "datastore_fetch_all" /\ f_mode = "nototal" /\ f_pc = "returned"
  /\ f_total > f_page /\ f_got = <<f_page>> /\ Len(f_all) = f_page
  /\ f_seen = <<{}>>

\* -------------------------------------------------------------------------
\*  Fields and source columns
\* -------------------------------------------------------------------------

\* No source column is the match of two fields in the mapping.
DistinctSources(mapping) ==
  \A t1, t2 \in Targets :
    (t1 # t2 /\ mapping[t1] # NoCol) => mapping[t1] # mapping[t2]

\* C26: build_col_map maps distinct fields to distinct source columns, for
\* every column list: no source column is the match of two fields, in the
\* mapping it returns and in the mapping slim_dataframe copies the columns
\* by.
C26_DistinctSources ==
  /\ DistinctSources(m_map1)
  /\ DistinctSources(m_cmap)

\* -------------------------------------------------------------------------
\*  Properties of main of cleandata.py
\* -------------------------------------------------------------------------

\* The year columns of the header row of the clean CSV, as ints.
HeaderYears == [k \in DOMAIN e_csv[1].cells |-> DigitsToInt(e_csv[1].cells[k])]

\* C23: the CSV written by main has the header "Name" followed by year
\* columns that are all within 2015..2024, ascending and each at most
\* once, whatever the file names of the input workbooks; a workbook whose
\* file name yields a year outside 2015..2024 contributes no column.
C23_YearColumns ==
  e_pc = "done" =>
    /\ e_csv[1].name = "Name"
    /\ \A k \in DOMAIN HeaderYears : HeaderYears[k] \in 2015..2024
    /\ \A j, k \in DOMAIN HeaderYears : j < k => HeaderYears[j] < HeaderYears[k]
    /\ \A i \in DOMAIN e_files :
         \A y \in year_from_filename(e_files[i]) :
           y \notin 2015..2024 => \A k \in DOMAIN HeaderYears : HeaderYears[k] # y

\* The workbook of a file visited that gave the values of a year column:
\* the first one in gather order whose item has that year.
FirstWorkbook(yeartext) ==
  LET hits == {i \in DOMAIN e_sheets :
                 /\ e_sheets[i] # None
                 /\ IntStr(e_sheets[i].year) = yeartext}
  IN CHOOSE i \in hits : \A j \in hits : i <= j

GapListed(label, yeartext) ==
  \E g \in DOMAIN e_gaps : e_gaps[g] = [label |-> label, year |-> yeartext]

\* C27: for every label and every year column of the output exactly one of
\* the two holds: the clean CSV has a non-empty integer cell for (label,
\* year), or the gap report lists (label, year); the cell is the rounded
\* value, and the gap the missing value, of the first workbook in gather
\* order that yields the year.
C27_CellOrGap ==
  e_pc = "done" =>
    /\ Len(e_csv) = Len(Labels) + 1
    /\ \A k \in DOMAIN Labels, y \in DOMAIN e_csv[1].cells :
         LET yeartext == e_csv[1].cells[y]
             cell     == e_csv[k + 1].cells[y]
             listed   == GapListed(Labels[k], yeartext)
             v        == e_sheets[FirstWorkbook(yeartext)].values[Labels[k]]
         IN /\ e_csv[k + 1].name = Labels[k]
            /\ (cell # <<>> /\ IsIntText(cell)) # listed
            /\ listed <=> v = NaN
            /\ ~listed => cell = IntStr(RoundHalfEven(v))

\* Two workbooks yield 2016; the first has no value for "Wood fuel" and the
\* second has 1500: the pair is in the gap report and its cell is empty.
C27_Witness ==
  /\ e_pc = "done"
  /\ e_files = << <<"2", "5", "5", "9">> \o Xlsx,
                  <<"2", "5", "6", "7", "_", "2", "0", "1", "6">> \o Xlsx >>
  /\ e_sheets[1].values["Wood fuel"] = NaN
  /\ e_sheets[2].values["Wood fuel"] = Decimal(1500, 0)
  /\ e_sheets[1].values["Coal/Lignite"] = Decimal(25, 1)
  /\ GapListed("Wood fuel", <<"2", "0", "1", "6">>)
  /\ e_csv[2].cells = << <<>> >>
  /\ e_csv[3].cells = << <<"2">> >>

====
